---- MODULE Spec2Model ----
(***************************************************************************)
(* A model of the battle core of Rob of the Shire: the Character resource  *)
(* pools and progression (character.py), the Enemy and its behaviour       *)
(* engine (enemy.py) and the CombatEncounter turn loop (combat.py).        *)
(*                                                                         *)
(* A Character and an Enemy are records; every method is an operator from  *)
(* the object (and the call's arguments and random outcomes) to a result   *)
(* record [c, ret, exc]: the object after the call, the value returned and *)
(* the exception raised ("none" when the call returns).                    *)
(***************************************************************************)
EXTENDS Integers, Sequences, FiniteSets, TLC

VARIABLES
    player,       \* the Character object
    last,         \* the last call made on it: [op, arg, ret, exc]
    enemy,        \* the Enemy object of the encounter
    phase,        \* CombatEncounter.phase
    result,       \* CombatEncounter.result ("None" until set)
    is_active,    \* CombatEncounter.is_active
    turn_number,  \* CombatEncounter.turn_number
    stats,        \* CombatEncounter.stats (CombatStats)
    allow_flee,   \* CombatEncounter.allow_flee
    pc,           \* position of the control flow inside CombatEncounter.start
    returned      \* the value CombatEncounter.start returned ("None" before it returns)

charVars   == <<player, last>>
combatVars == <<enemy, phase, result, is_active, turn_number, stats, allow_flee, pc, returned>>
\* vars leads with the operation and its exception, so that the records of two
\* calls are compared field by field only when the calls are of one kind
vars       == <<last.op, last.exc, player, last, enemy, phase, result, is_active,
                turn_number, stats, allow_flee, pc, returned>>

(***************************************************************************)
(* config.py: GameConfig                                                   *)
(***************************************************************************)
DEFAULT_HEALTH == 100
DEFAULT_MANA == 50
DEFAULT_STAMINA == 100
BASE_XP_REQUIREMENT == 100
MAX_LEVEL == 100
STAT_POINTS_PER_LEVEL == 5
MAX_INVENTORY_SIZE == 50

\* XP_SCALING_FACTOR = 1.5, as the fraction 3/2
XP_SCALING_NUM == 3
XP_SCALING_DEN == 2

\* Probabilities are kept as integers over 200, the common denominator of
\* BASE_CRIT_CHANCE (0.05), DODGE_BASE_CHANCE (0.1), FLEE_BASE_CHANCE (0.3),
\* luck / 100 and agility / 200.
PROB_DEN == 200
BASE_CRIT_CHANCE == 10
DODGE_BASE_CHANCE == 20
FLEE_BASE_CHANCE == 60

\* CRIT_DAMAGE_MULTIPLIER = 1.5; int(d * 1.5) == (3 * d) \div 2 for d >= 0
CritDamage(d) == (3 * d) \div 2

\* config.py: CLASS_STATS
CLASS_STATS ==
    [ WARRIOR |-> [health_bonus |-> 30, mana_bonus |-> 0, stamina_bonus |-> 20,
                   strength_bonus |-> 5, agility_bonus |-> 2, intelligence_bonus |-> 1],
      MAGE    |-> [health_bonus |-> 0, mana_bonus |-> 50, stamina_bonus |-> 10,
                   strength_bonus |-> 1, agility_bonus |-> 2, intelligence_bonus |-> 5],
      ROGUE   |-> [health_bonus |-> 10, mana_bonus |-> 20, stamina_bonus |-> 30,
                   strength_bonus |-> 2, agility_bonus |-> 5, intelligence_bonus |-> 2],
      RANGER  |-> [health_bonus |-> 15, mana_bonus |-> 25, stamina_bonus |-> 25,
                   strength_bonus |-> 3, agility_bonus |-> 4, intelligence_bonus |-> 3] ]

(***************************************************************************)
(* Python helpers                                                          *)
(***************************************************************************)
Max(a, b) == IF a >= b THEN a ELSE b
Min(a, b) == IF a <= b THEN a ELSE b

\* Python's None
None == [none |-> TRUE]

\* random.random() < chance, chance = num / PROB_DEN: random() is in [0, 1),
\* so the test can succeed iff chance > 0 and can fail iff chance < 1.
Roll(num) == {b \in BOOLEAN : IF b THEN num > 0 ELSE num < PROB_DEN}

\* dict.get(key, default)
Get(d, key, default) == IF key \in DOMAIN d THEN d[key] ELSE default

\* str.lower() on the names the model uses
Lower(s) ==
    CASE s = "Health Potion" -> "health potion"
      [] s = "HEALTH POTION" -> "health potion"
      [] s = "Elixir"        -> "elixir"
      [] s = "ELIXIR"        -> "elixir"
      [] s = "Axe"           -> "axe"
      [] s = "AXE"           -> "axe"
      [] s = "SWORD"         -> "sword"
      [] s = "Pebble"        -> "pebble"
      [] s = "Tonic"         -> "tonic"
      [] s = "Weapon"        -> "weapon"
      [] s = "Amulet"        -> "amulet"
      [] s = "Sword"         -> "sword"
      [] s = "Strength"      -> "strength"
      [] s = "LUCK"          -> "luck"
      [] s = "Accessory"     -> "accessory"
      [] OTHER               -> s

\* a call's outcome
Return(c, r) == [c |-> c, ret |-> r, exc |-> "none"]
Raise(c, e)  == [c |-> c, ret |-> None, exc |-> e]

(***************************************************************************)
(* character.py: Stats, Equipment                                          *)
(***************************************************************************)
StatNames == {"strength", "agility", "intelligence", "vitality", "luck"}
SlotNames == {"weapon", "armor", "accessory", "shield"}

\* Equipment.get_total_stats()[key]
RECURSIVE SumSlots(_, _, _)
SumSlots(eq, key, slots) ==
    IF slots = {} THEN 0
    ELSE LET s == CHOOSE x \in slots : TRUE
         IN  (IF eq[s] # None THEN Get(eq[s], key, 0) ELSE 0)
             + SumSlots(eq, key, slots \ {s})

get_total_stats(eq, key) == SumSlots(eq, key, SlotNames)

\* Character.__init__
NewCharacter(name, class, health, mana, stamina, level, experience) ==
    LET cs == CLASS_STATS[class]
    IN  [ name |-> name,
          character_class |-> class,
          level |-> level,
          experience |-> experience,
          base_max_health |-> health + cs.health_bonus,
          health |-> health + cs.health_bonus,
          base_max_mana |-> mana + cs.mana_bonus,
          mana |-> mana + cs.mana_bonus,
          base_max_stamina |-> stamina + cs.stamina_bonus,
          stamina |-> stamina + cs.stamina_bonus,
          stats |-> [strength |-> 10 + cs.strength_bonus,
                     agility |-> 10 + cs.agility_bonus,
                     intelligence |-> 10 + cs.intelligence_bonus,
                     vitality |-> 10,
                     luck |-> 5],
          available_stat_points |-> 0,
          skill_points |-> 0,
          equipment |-> [weapon |-> None, armor |-> None, accessory |-> None,
                         shield |-> None],
          inventory |-> << >>,
          skills |-> << >>,
          gold |-> 0,
          status_effects |-> << >>,
          is_defending |-> FALSE ]

\* the properties: base_max_* are the fields _max_health, _max_mana, _max_stamina
max_health(c)  == c.base_max_health + get_total_stats(c.equipment, "health_bonus")
max_mana(c)    == c.base_max_mana + get_total_stats(c.equipment, "mana_bonus")
max_stamina(c) == c.base_max_stamina
is_alive(c)    == c.health > 0

\* the setters
set_health(c, value)  == [c EXCEPT !.health = Max(0, Min(value, c.base_max_health))]
set_mana(c, value)    == [c EXCEPT !.mana = Max(0, Min(value, c.base_max_mana))]
set_stamina(c, value) == [c EXCEPT !.stamina = Max(0, Min(value, c.base_max_stamina))]

(***************************************************************************)
(* character.py: experience and leveling                                   *)
(***************************************************************************)
\* Character.xp_to_next_level: int(BASE_XP_REQUIREMENT * XP_SCALING_FACTOR ** (level - 1)).
\* The quotient is the float result exactly while BASE * 3^(level-1) is below 2^31.
xp_to_next_level(c) ==
    (BASE_XP_REQUIREMENT * XP_SCALING_NUM ^ (c.level - 1)) \div (XP_SCALING_DEN ^ (c.level - 1))

\* Character._level_up
_level_up(c) ==
    LET h == c.base_max_health + 10 + (c.stats.vitality \div 5)
        m == c.base_max_mana + 5 + (c.stats.intelligence \div 5)
        s == c.base_max_stamina + 5 + (c.stats.agility \div 5)
    IN  [c EXCEPT !.level = c.level + 1,
                  !.available_stat_points = c.available_stat_points + STAT_POINTS_PER_LEVEL,
                  !.skill_points = c.skill_points + 1,
                  !.base_max_health = h,
                  !.base_max_mana = m,
                  !.base_max_stamina = s,
                  !.health = h,
                  !.mana = m,
                  !.stamina = s]

\* (mutant) the loop as an if: at most one level per call
LevelLoop_Once(c, levels_gained) ==
    IF c.level < MAX_LEVEL /\ c.experience >= xp_to_next_level(c)
    THEN LET d == _level_up([c EXCEPT !.experience = c.experience - xp_to_next_level(c)])
         IN  Return(d, Append(levels_gained, d.level))
    ELSE Return(c, levels_gained)

\* (mutant) the loop entered only above the threshold: > for >=
RECURSIVE LevelLoop_Strict(_, _)
LevelLoop_Strict(c, levels_gained) ==
    IF c.level < MAX_LEVEL /\ c.experience > xp_to_next_level(c)
    THEN LET d == _level_up([c EXCEPT !.experience = c.experience - xp_to_next_level(c)])
         IN  LevelLoop_Strict(d, Append(levels_gained, d.level))
    ELSE Return(c, levels_gained)

\* the while loop of gain_experience: one iteration per level gained
RECURSIVE LevelLoop(_, _)
LevelLoop(c, levels_gained) ==
    IF c.level < MAX_LEVEL /\ c.experience >= xp_to_next_level(c)
    THEN LET d == _level_up([c EXCEPT !.experience = c.experience - xp_to_next_level(c)])
         IN  LevelLoop(d, Append(levels_gained, d.level))
    ELSE Return(c, levels_gained)

\* (mutant) gain_experience without its amount <= 0 guard
gain_experience_Unguarded(c, amount) ==
    LevelLoop([c EXCEPT !.experience = c.experience + amount], << >>)

\* Character.gain_experience
gain_experience(c, amount) ==
    IF amount <= 0 THEN Return(c, << >>)
    ELSE LevelLoop([c EXCEPT !.experience = c.experience + amount], << >>)

\* a result together with the line the call printed
Printed(res, msg) == [c |-> res.c, ret |-> res.ret, exc |-> res.exc, printed |-> msg]

\* (mutant) allocate_stat_point that compares the name as given, not lowered
allocate_stat_point_CaseSensitive(c, stat_name) ==
    IF c.available_stat_points <= 0
    THEN Printed(Return(c, FALSE), "No stat points available.")
    ELSE IF stat_name \notin StatNames
         THEN Printed(Return(c, FALSE), "Invalid stat.")
         ELSE Printed(Return([c EXCEPT !.stats[stat_name] = c.stats[stat_name] + 1,
                                       !.available_stat_points =
                                           c.available_stat_points - 1],
                             TRUE),
                      "increased")

\* Character.allocate_stat_point
allocate_stat_point(c, stat_name) ==
    IF c.available_stat_points <= 0
    THEN Printed(Return(c, FALSE), "No stat points available.")
    ELSE LET name == Lower(stat_name)
         IN  IF name \notin StatNames
             THEN Printed(Return(c, FALSE), "Invalid stat.")
             ELSE Printed(Return([c EXCEPT !.stats[name] = c.stats[name] + 1,
                                           !.available_stat_points =
                                               c.available_stat_points - 1],
                                 TRUE),
                          "increased")

(***************************************************************************)
(* character.py: inventory                                                 *)
(***************************************************************************)
\* the index of the first inventory item of that name (case-insensitive), 0 if none
FindItem(c, item_name) ==
    LET hits == {i \in 1..Len(c.inventory) :
                     Lower(c.inventory[i].name) = Lower(item_name)}
    IN  IF hits = {} THEN 0 ELSE CHOOSE i \in hits : \A j \in hits : i <= j

RemoveAt(seq, i) == SubSeq(seq, 1, i - 1) \o SubSeq(seq, i + 1, Len(seq))

\* dict.copy(): a new dict with the keys and values of item. A dict the caller
\* keeps a reference to carries the field "object" that identifies it; the
\* copy is another object, which no caller refers to
copy(item) ==
    IF "object" \in DOMAIN item
    THEN [k \in DOMAIN item \ {"object"} |-> item[k]]
    ELSE item

\* a variant of add_item that stores the caller's dict itself
add_item_KeepsReference(c, item) ==
    IF Len(c.inventory) >= MAX_INVENTORY_SIZE
    THEN Raise(c, "InventoryFullError")
    ELSE Return([c EXCEPT !.inventory = Append(c.inventory, item)], TRUE)

\* Character.add_item
add_item(c, item) ==
    IF Len(c.inventory) >= MAX_INVENTORY_SIZE
    THEN Raise(c, "InventoryFullError")
    ELSE Return([c EXCEPT !.inventory = Append(c.inventory, copy(item))], TRUE)

\* Character.remove_item
remove_item(c, item_name) ==
    LET i == FindItem(c, item_name)
    IN  IF i = 0 THEN Return(c, None)
        ELSE Return([c EXCEPT !.inventory = RemoveAt(c.inventory, i)], c.inventory[i])

\* Character.get_item
get_item(c, item_name) ==
    LET i == FindItem(c, item_name)
    IN  IF i = 0 THEN None ELSE c.inventory[i]

\* Character._use_potion
_use_potion(c, item) ==
    LET c1 == IF "heal" \in DOMAIN item THEN set_health(c, c.health + item.heal) ELSE c
        c2 == IF "mana" \in DOMAIN item THEN set_mana(c1, c1.mana + item.mana) ELSE c1
        c3 == IF "stamina" \in DOMAIN item
              THEN set_stamina(c2, c2.stamina + item.stamina) ELSE c2
        effect_applied == \E k \in {"heal", "mana", "stamina"} : k \in DOMAIN item
    IN  IF effect_applied
        THEN Return(remove_item(c3, item.name).c, TRUE)
        ELSE Raise(c3, "ItemNotUsableError")

\* Character._use_consumable
_use_consumable(c, item) ==
    IF "buff" \in DOMAIN item
    THEN LET buff_data == [name |-> item.name, effect |-> item.buff,
                           duration |-> Get(item, "duration", 3)]
             c1 == [c EXCEPT !.status_effects = Append(c.status_effects, buff_data)]
         IN  Return(remove_item(c1, item.name).c, TRUE)
    ELSE Raise(c, "ItemNotUsableError")

\* Character.use_item
use_item(c, item_name) ==
    LET item == get_item(c, item_name)
    IN  IF item = None THEN Raise(c, "ItemNotFoundError")
        ELSE LET item_type == Get(item, "type", "")
             IN  IF item_type = "potion" THEN _use_potion(c, item)
                 ELSE IF item_type = "consumable" THEN _use_consumable(c, item)
                 ELSE Raise(c, "ItemNotUsableError")

\* the slot equip_item puts an item in ("" when it is not equippable)
EquipSlot(item) ==
    LET item_type == Get(item, "type", "")
    IN  IF item_type \in {"weapon", "armor", "accessory"} THEN item_type
        ELSE IF Get(item, "subtype", "") = "shield" THEN "shield"
        ELSE ""

\* a variant of equip_item that discards the item the slot held
equip_item_DropsOld(c, item_name) ==
    LET item == get_item(c, item_name)
    IN  IF item = None THEN Raise(c, "ItemNotFoundError")
        ELSE LET slot == EquipSlot(item)
             IN  IF slot = "" THEN Raise(c, "ItemNotEquippableError")
                 ELSE Return(remove_item([c EXCEPT !.equipment[slot] = item], item_name).c,
                             TRUE)

\* Character.equip_item
equip_item(c, item_name) ==
    LET item == get_item(c, item_name)
    IN  IF item = None THEN Raise(c, "ItemNotFoundError")
        ELSE LET slot == EquipSlot(item)
             IN  IF slot = "" THEN Raise(c, "ItemNotEquippableError")
                 ELSE LET old_item == c.equipment[slot]
                          c1 == [c EXCEPT !.equipment[slot] = item]
                          c2 == IF old_item # None
                                THEN [c1 EXCEPT !.inventory = Append(c1.inventory, old_item)]
                                ELSE c1
                      IN  Return(remove_item(c2, item_name).c, TRUE)

\* Character.unequip_item, for the slot names of Equipment
unequip_item(c, slot_name) ==
    LET slot == Lower(slot_name)
        item == IF slot \in SlotNames THEN c.equipment[slot] ELSE None
    IN  IF item = None THEN Return(c, FALSE)
        ELSE IF Len(c.inventory) >= MAX_INVENTORY_SIZE THEN Raise(c, "InventoryFullError")
        ELSE Return([c EXCEPT !.inventory = Append(c.inventory, item),
                              !.equipment[slot] = None],
                    TRUE)

(***************************************************************************)
(* character.py: combat                                                    *)
(***************************************************************************)
\* Character.get_attack_damage
get_attack_damage(c, weapon) ==
    LET w == IF weapon = None THEN c.equipment.weapon ELSE weapon
        base_damage == IF w # None THEN Get(w, "damage", 5) ELSE 5
    IN  base_damage + (c.stats.strength \div 2)

\* Character.get_defense
get_defense(c) ==
    LET equipment_defense == get_total_stats(c.equipment, "defense")
        vitality_bonus == c.stats.vitality \div 3
    IN  IF c.is_defending THEN (equipment_defense + vitality_bonus) * 2
        ELSE equipment_defense + vitality_bonus

\* Character.get_crit_chance and get_dodge_chance, over PROB_DEN
get_crit_chance(c)  == BASE_CRIT_CHANCE + 2 * c.stats.luck + c.stats.agility
get_dodge_chance(c) == DODGE_BASE_CHANCE + 2 * c.stats.agility

\* Character.defend
defend(c) == [c EXCEPT !.is_defending = TRUE]

\* a variant of take_damage without the floor of 1
take_damage_NoFloor(c, amount, dodged) ==
    LET actual_damage == Max(0, amount - get_defense(c))
    IN  IF dodged THEN Return(c, 0)
        ELSE Return(set_health(c, c.health - actual_damage), actual_damage)

\* a variant of take_damage where a dodge only avoids what the defense lets through
take_damage_DodgeAfterDefense(c, amount, dodged) ==
    LET actual_damage == Max(1, amount - get_defense(c))
    IN  IF dodged /\ amount > get_defense(c) THEN Return(c, 0)
        ELSE Return(set_health(c, c.health - actual_damage), actual_damage)

\* Character.take_damage; dodged is the outcome of random() < get_dodge_chance()
take_damage(c, amount, dodged) ==
    LET actual_damage == Max(1, amount - get_defense(c))
    IN  IF dodged THEN Return(c, 0)
        ELSE Return(set_health(c, c.health - actual_damage), actual_damage)

\* Character.heal
heal(c, amount) ==
    LET d == set_health(c, c.health + amount)
    IN  Return(d, d.health - c.health)

\* Character.restore_mana
restore_mana(c, amount) ==
    LET d == set_mana(c, c.mana + amount)
    IN  Return(d, d.mana - c.mana)

\* Character.full_restore
full_restore(c) ==
    [c EXCEPT !.health = max_health(c),
              !.mana = max_mana(c),
              !.stamina = max_stamina(c),
              !.status_effects = << >>]

(***************************************************************************)
(* enemy.py: EnemyRank, EnemyAbility, LootTable, Enemy                     *)
(***************************************************************************)
\* EnemyRank values, doubled: MINION 0.5, NORMAL 1.0, ELITE 1.5, BOSS 2.5, LEGENDARY 5.0
RankTwice == [MINION |-> 1, NORMAL |-> 2, ELITE |-> 3, BOSS |-> 5, LEGENDARY |-> 10]

\* EnemyAbility; damage_multiplier is kept doubled (1.5 -> 3, 2.0 -> 4, 0.5 -> 1)
PowerStrike  == [name |-> "Power Strike", mult_twice |-> 3, effect |-> "none",
                 cooldown |-> 3, current_cooldown |-> 0]
CrushingBlow == [name |-> "Crushing Blow", mult_twice |-> 4, effect |-> "stun",
                 cooldown |-> 5, current_cooldown |-> 0]
Enrage       == [name |-> "Enrage", mult_twice |-> 1, effect |-> "self_buff",
                 cooldown |-> 7, current_cooldown |-> 0]

\* a variant of tick that decrements a cooldown that is already 0
tick_Unfloored(a) == [a EXCEPT !.current_cooldown = a.current_cooldown - 1]

\* EnemyAbility.is_ready, use, tick
is_ready(a) == a.current_cooldown <= 0
use(a)      == [a EXCEPT !.current_cooldown = a.cooldown]
tick(a)     == IF a.current_cooldown > 0
               THEN [a EXCEPT !.current_cooldown = a.current_cooldown - 1]
               ELSE a

\* Enemy._setup_abilities
_setup_abilities(rank) ==
    (IF rank \in {"ELITE", "BOSS", "LEGENDARY"} THEN <<PowerStrike>> ELSE << >>)
        \o (IF rank \in {"BOSS", "LEGENDARY"} THEN <<CrushingBlow>> ELSE << >>)
        \o (IF rank = "LEGENDARY" THEN <<Enrage>> ELSE << >>)

\* Enemy.__init__ at level 1 and difficulty NORMAL: total_multiplier = rank.value;
\* base_xp is ENEMY_TYPES[enemy_type]["xp_reward"]
NewEnemy(health, damage, defense, base_xp, rank, behavior) ==
    LET m2 == RankTwice[rank]
    IN  [ rank |-> rank,
          behavior |-> behavior,
          max_health |-> (health * m2) \div 2,
          health |-> (health * m2) \div 2,
          base_damage |-> (damage * m2) \div 2,
          defense |-> (defense * m2) \div 2,
          loot_table |-> [gold_range |-> <<(5 * m2) \div 2, (20 * m2) \div 2>>,
                          xp_reward |-> (base_xp * m2) \div 2,
                          items |-> << >>],
          abilities |-> _setup_abilities(rank),
          is_defending |-> FALSE,
          turns_in_combat |-> 0 ]

\* Enemy.is_alive
enemy_is_alive(e) == e.health > 0

\* a variant of HealthBelow whose threshold is inclusive
HealthBelow_Inclusive(e, pct) ==
    IF e.max_health > 0 THEN e.health * 100 <= pct * e.max_health ELSE 0 <= pct

\* Enemy.health_percentage < pct
HealthBelow(e, pct) ==
    IF e.max_health > 0 THEN e.health * 100 < pct * e.max_health ELSE 0 < pct

\* Enemy.damage
damage(e) ==
    LET b1 == IF e.behavior = "BERSERKER" /\ HealthBelow(e, 30)
              THEN (3 * e.base_damage) \div 2 ELSE e.base_damage
    IN  IF e.is_defending THEN b1 \div 2 ELSE b1

\* Enemy.effective_defense
effective_defense(e) == IF e.is_defending THEN e.defense * 2 ELSE e.defense

\* a variant of Enemy.take_damage without the floor of one point
enemy_take_damage_NoFloor(e, amount) ==
    LET actual_damage == Max(0, amount - effective_defense(e))
    IN  Return([e EXCEPT !.health = Max(0, e.health - actual_damage)], actual_damage)

\* Enemy.take_damage
enemy_take_damage(e, amount) ==
    LET actual_damage == Max(1, amount - effective_defense(e))
    IN  Return([e EXCEPT !.health = Max(0, e.health - actual_damage)], actual_damage)

\* Enemy.heal
enemy_heal(e, amount) ==
    LET h == Min(e.max_health, e.health + amount)
    IN  Return([e EXCEPT !.health = h], h - e.health)

\* the indices of the abilities that are ready
ReadyAbilities(e) == {i \in 1..Len(e.abilities) : is_ready(e.abilities[i])}

\* a variant of choose_action whose AGGRESSIVE bound on the roll is inclusive
choose_action_AggressiveInclusive(e, roll1, roll2) ==
    LET e1 == [e EXCEPT !.turns_in_combat = e.turns_in_combat + 1]
        ready == ReadyAbilities(e) # {}
        action ==
            CASE e.behavior = "AGGRESSIVE" ->
                     IF ready /\ roll1 <= 40 THEN "ability" ELSE "attack"
              [] e.behavior = "DEFENSIVE" ->
                     IF HealthBelow(e, 40)
                     THEN (IF roll1 < 60 THEN "defend" ELSE "attack")
                     ELSE "attack"
              [] e.behavior = "COWARD" ->
                     IF HealthBelow(e, 25)
                     THEN (IF roll1 < 50 THEN "flee" ELSE "attack")
                     ELSE "attack"
              [] e.behavior = "BERSERKER" ->
                     IF ready /\ HealthBelow(e, 30) THEN "ability" ELSE "attack"
              [] e.behavior = "TACTICAL" ->
                     IF ready /\ roll1 < 30 THEN "ability"
                     ELSE IF HealthBelow(e, 30)
                             /\ (IF ready THEN roll2 ELSE roll1) < 40 THEN "defend"
                     ELSE "attack"
              [] OTHER ->
                     IF roll1 < 10 /\ HealthBelow(e, 50) THEN "defend"
                     ELSE IF roll1 < 25 /\ ready THEN "ability"
                     ELSE "attack"
    IN  [e |-> e1, action |-> action]

\* a variant of choose_action whose BALANCED branch tests the ability first
choose_action_AbilityFirst(e, roll1, roll2) ==
    LET e1 == [e EXCEPT !.turns_in_combat = e.turns_in_combat + 1]
        ready == ReadyAbilities(e) # {}
        action ==
            CASE e.behavior = "AGGRESSIVE" ->
                     IF ready /\ roll1 < 40 THEN "ability" ELSE "attack"
              [] e.behavior = "DEFENSIVE" ->
                     IF HealthBelow(e, 40)
                     THEN (IF roll1 < 60 THEN "defend" ELSE "attack")
                     ELSE "attack"
              [] e.behavior = "COWARD" ->
                     IF HealthBelow(e, 25)
                     THEN (IF roll1 < 50 THEN "flee" ELSE "attack")
                     ELSE "attack"
              [] e.behavior = "BERSERKER" ->
                     IF ready /\ HealthBelow(e, 30) THEN "ability" ELSE "attack"
              [] e.behavior = "TACTICAL" ->
                     IF ready /\ roll1 < 30 THEN "ability"
                     ELSE IF HealthBelow(e, 30)
                             /\ (IF ready THEN roll2 ELSE roll1) < 40 THEN "defend"
                     ELSE "attack"
              [] OTHER ->
                     IF roll1 < 25 /\ ready THEN "ability"
                     ELSE IF roll1 < 10 /\ HealthBelow(e, 50) THEN "defend"
                     ELSE "attack"
    IN  [e |-> e1, action |-> action]

\* Enemy.choose_action; roll1 and roll2 are the values of the first and the second
\* random.random() the branch draws, in hundredths
choose_action(e, roll1, roll2) ==
    LET e1 == [e EXCEPT !.turns_in_combat = e.turns_in_combat + 1]
        ready == ReadyAbilities(e) # {}
        action ==
            CASE e.behavior = "AGGRESSIVE" ->
                     IF ready /\ roll1 < 40 THEN "ability" ELSE "attack"
              [] e.behavior = "DEFENSIVE" ->
                     IF HealthBelow(e, 40)
                     THEN (IF roll1 < 60 THEN "defend" ELSE "attack")
                     ELSE "attack"
              [] e.behavior = "COWARD" ->
                     IF HealthBelow(e, 25)
                     THEN (IF roll1 < 50 THEN "flee" ELSE "attack")
                     ELSE "attack"
              [] e.behavior = "BERSERKER" ->
                     IF ready /\ HealthBelow(e, 30) THEN "ability" ELSE "attack"
              [] e.behavior = "TACTICAL" ->
                     IF ready /\ roll1 < 30 THEN "ability"
                     ELSE IF HealthBelow(e, 30)
                             /\ (IF ready THEN roll2 ELSE roll1) < 40 THEN "defend"
                     ELSE "attack"
              [] OTHER ->
                     IF roll1 < 10 /\ HealthBelow(e, 50) THEN "defend"
                     ELSE IF roll1 < 25 /\ ready THEN "ability"
                     ELSE "attack"
    IN  [e |-> e1, action |-> action]

\* Enemy.attack_target; u is the value of random.uniform(0.9, 1.1) in hundredths
\* and dodged the target's dodge roll. The result holds the enemy and the target.
attack_target(e, target, u, dodged) ==
    LET e1 == [e EXCEPT !.is_defending = FALSE]
        hit == take_damage(target, (damage(e1) * u) \div 100, dodged)
    IN  [e |-> e1, target |-> hit.c, ret |-> hit.ret]

\* a variant of use_ability whose self_buff ability also hits the target
use_ability_BuffAlsoHits(e, target, pick, dodged) ==
    IF ReadyAbilities(e) = {} THEN [e |-> e, target |-> target, ret |-> 0]
    ELSE LET ability == e.abilities[pick]
             dmg == (damage(e) * ability.mult_twice) \div 2
             e1 == [e EXCEPT !.abilities[pick] = use(ability)]
         IN  IF ability.effect = "self_buff"
             THEN [e |-> [e1 EXCEPT !.base_damage = (13 * e1.base_damage) \div 10],
                   target |-> take_damage(target, dmg, dodged).c, ret |-> pick]
             ELSE [e |-> e1, target |-> take_damage(target, dmg, dodged).c, ret |-> pick]

\* Enemy.use_ability; pick is the index random.choice takes among the ready ones
\* (0 stands for the None returned when no ability is ready)
use_ability(e, target, pick, dodged) ==
    IF ReadyAbilities(e) = {} THEN [e |-> e, target |-> target, ret |-> 0]
    ELSE LET ability == e.abilities[pick]
             dmg == (damage(e) * ability.mult_twice) \div 2
             e1 == [e EXCEPT !.abilities[pick] = use(ability)]
         IN  IF ability.effect = "self_buff"
             THEN [e |-> [e1 EXCEPT !.base_damage = (13 * e1.base_damage) \div 10],
                   target |-> target, ret |-> pick]
             ELSE [e |-> e1, target |-> take_damage(target, dmg, dodged).c, ret |-> pick]

\* Enemy.defend_action
defend_action(e) == [e EXCEPT !.is_defending = TRUE]

\* Enemy.tick_abilities
tick_abilities(e) == [e EXCEPT !.abilities = [i \in 1..Len(e.abilities) |-> tick(e.abilities[i])]]

\* a variant of perform_action that reports the action selected even when it
\* fell back to an attack
perform_action_ReportsSelection(e, target, action, pick, u, dodged) ==
    LET r == CASE action = "attack" ->
                      [attack_target(e, target, u, dodged) EXCEPT !.ret = "attack"]
               [] action = "defend" ->
                      [e |-> defend_action(e), target |-> target, ret |-> "defend"]
               [] action = "ability" ->
                      LET ab == use_ability(e, target, pick, dodged)
                      IN  IF ab.ret = 0
                          THEN [attack_target(e, target, u, dodged) EXCEPT !.ret = "ability"]
                          ELSE [ab EXCEPT !.ret = "ability"]
               [] OTHER ->
                      [e |-> e, target |-> target, ret |-> "flee"]
    IN  [e |-> tick_abilities(r.e), target |-> r.target, ret |-> r.ret]

\* Enemy.execute_turn after choose_action: what is done for the action selected,
\* the tick of the cooldowns and the action reported. The result holds the
\* enemy, the target and the action reported. (The flee branch draws a random
\* number that only selects a message.)
perform_action(e, target, action, pick, u, dodged) ==
    LET r == CASE action = "attack" ->
                      [attack_target(e, target, u, dodged) EXCEPT !.ret = "attack"]
               [] action = "defend" ->
                      [e |-> defend_action(e), target |-> target, ret |-> "defend"]
               [] action = "ability" ->
                      LET ab == use_ability(e, target, pick, dodged)
                      IN  IF ab.ret = 0
                          THEN [attack_target(e, target, u, dodged) EXCEPT !.ret = "attack"]
                          ELSE [ab EXCEPT !.ret = "ability"]
               [] OTHER ->
                      [e |-> e, target |-> target, ret |-> "flee"]
    IN  [e |-> tick_abilities(r.e), target |-> r.target, ret |-> r.ret]

\* Enemy.execute_turn
execute_turn(e, target, roll1, roll2, pick, u, dodged) ==
    LET ch == choose_action(e, roll1, roll2)
    IN  perform_action(ch.e, target, ch.action, pick, u, dodged)

\* the items of the entries whose roll is below their drop_chance (0.1 when
\* the entry has none), in the order of the table; chances and rolls are in
\* hundredths
RECURSIVE Drops(_, _)
Drops(entries, rolls) ==
    IF entries = << >> THEN << >>
    ELSE (IF Head(rolls) < Get(Head(entries), "drop_chance", 10)
          THEN <<Head(entries).item>> ELSE << >>)
             \o Drops(Tail(entries), Tail(rolls))

\* a variant of roll_loot that makes a single pick: the first entry that
\* qualifies
roll_loot_SinglePick(table, gold, rolls) ==
    [gold |-> gold,
     xp |-> table.xp_reward,
     items |-> LET d == Drops(table.items, rolls)
               IN  IF d = << >> THEN d ELSE <<Head(d)>>]

\* LootTable.roll_loot; gold is the value of random.randint(*gold_range) and
\* rolls the values of random.random() drawn for the entries, one each
roll_loot(table, gold, rolls) ==
    [gold |-> gold,
     xp |-> table.xp_reward,
     items |-> Drops(table.items, rolls)]

\* Enemy.get_loot
get_loot(e, gold, rolls) == roll_loot(e.loot_table, gold, rolls)

(***************************************************************************)
(* character.py: Character.attack                                          *)
(***************************************************************************)
\* the weapon Character.attack finds: the first inventory item of that name if
\* it is a weapon, else the equipped weapon of that name, else None
FindWeapon(c, weapon_name) ==
    LET hits == {i \in 1..Len(c.inventory) :
                     Lower(c.inventory[i].name) = Lower(weapon_name)}
        typed == {i \in hits : Get(c.inventory[i], "type", "") = "weapon"}
    IN  IF typed # {} THEN c.inventory[CHOOSE i \in typed : \A j \in typed : i <= j]
        ELSE IF c.equipment.weapon # None
                /\ Lower(c.equipment.weapon.name) = Lower(weapon_name)
        THEN c.equipment.weapon
        ELSE None

\* a variant of attack that leaves the defensive stance before it looks for
\* the weapon
attack_DropsStance(c, weapon_name, e, is_critical) ==
    IF ~is_alive(c)
    THEN [c |-> c, e |-> e, ret |-> None, exc |-> "CharacterDeadError"]
    ELSE LET weapon == FindWeapon(c, weapon_name)
             c1 == [c EXCEPT !.is_defending = FALSE]
         IN  IF weapon = None
             THEN [c |-> c1, e |-> e, ret |-> None, exc |-> "InvalidWeaponError"]
             ELSE LET base_damage == get_attack_damage(c1, weapon)
                      dmg == IF is_critical THEN CritDamage(base_damage) ELSE base_damage
                  IN  [c |-> c1,
                       e |-> enemy_take_damage(e, dmg).c,
                       ret |-> <<dmg, is_critical>>,
                       exc |-> "none"]

\* Character.attack; is_critical is the outcome of random() < get_crit_chance().
\* The result holds the character, the enemy, the pair returned and the exception.
attack(c, weapon_name, e, is_critical) ==
    IF ~is_alive(c)
    THEN [c |-> c, e |-> e, ret |-> None, exc |-> "CharacterDeadError"]
    ELSE LET weapon == FindWeapon(c, weapon_name)
         IN  IF weapon = None
             THEN [c |-> c, e |-> e, ret |-> None, exc |-> "InvalidWeaponError"]
             ELSE LET base_damage == get_attack_damage(c, weapon)
                      dmg == IF is_critical THEN CritDamage(base_damage) ELSE base_damage
                  IN  [c |-> [c EXCEPT !.is_defending = FALSE],
                       e |-> enemy_take_damage(e, dmg).c,
                       ret |-> <<dmg, is_critical>>,
                       exc |-> "none"]

(***************************************************************************)
(* combat.py: CombatStats, CombatEncounter                                 *)
(***************************************************************************)
\* CombatStats()
NewCombatStats ==
    [total_damage_dealt |-> 0, total_damage_taken |-> 0, turns_elapsed |-> 0,
     items_used |-> 0, abilities_used |-> 0, critical_hits |-> 0, dodges |-> 0]

\* CombatStats.add_damage_dealt
add_damage_dealt(st, amount, is_crit) ==
    [st EXCEPT !.total_damage_dealt = @ + amount,
               !.critical_hits = IF is_crit THEN @ + 1 ELSE @]

\* CombatStats.add_damage_taken
add_damage_taken(st, amount) ==
    IF amount = 0 THEN [st EXCEPT !.dodges = @ + 1]
    ELSE [st EXCEPT !.total_damage_taken = @ + amount]

\* CombatEncounter.__init__: the encounter object, called self below
NewEncounter(p, e, flee) ==
    [player |-> p, enemy |-> e, allow_flee |-> flee, phase |-> "START",
     result |-> "None", stats |-> NewCombatStats, turn_number |-> 0, is_active |-> TRUE]

\* the sequence without the elements that occur earlier in it or in seen
RECURSIVE Distinct(_, _)
Distinct(seq, seen) ==
    IF seq = << >> THEN << >>
    ELSE IF \E k \in 1..Len(seen) : seen[k] = Head(seq)
    THEN Distinct(Tail(seq), seen)
    ELSE <<Head(seq)>> \o Distinct(Tail(seq), Append(seen, Head(seq)))

IsWeapon(item) == Get(item, "type", "") = "weapon"
IsUsable(item) == Get(item, "type", "") \in {"potion", "consumable"}

\* CombatEncounter.display_weapons
display_weapons(self) ==
    LET equipped == IF self.player.equipment.weapon # None
                    THEN <<self.player.equipment.weapon>> ELSE << >>
    IN  equipped \o Distinct(SelectSeq(self.player.inventory, IsWeapon), equipped)

\* CombatEncounter.display_usable_items
display_usable_items(self) == SelectSeq(self.player.inventory, IsUsable)

\* int(choice) of the texts the model types at a prompt; ok is FALSE where
\* int() raises ValueError
ParseInt(choice) ==
    CASE choice = "0" -> [ok |-> TRUE, val |-> 0]
      [] choice = "1" -> [ok |-> TRUE, val |-> 1]
      [] choice = "2" -> [ok |-> TRUE, val |-> 2]
      [] choice = "9" -> [ok |-> TRUE, val |-> 9]
      [] OTHER        -> [ok |-> FALSE, val |-> 0]

\* what a handler gives back: the encounter, the value returned and the exception
Handled(self, ret) == [self |-> self, ret |-> ret, exc |-> "none"]
Failed(self, exc)  == [self |-> self, ret |-> FALSE, exc |-> exc]

\* CombatEncounter.handle_player_attack; choice is the text typed at the weapon
\* prompt and is_crit the outcome of the critical-hit roll
handle_player_attack(self, choice, is_crit) ==
    LET weapons == display_weapons(self)
    IN  IF weapons = << >>
        THEN LET base == 5 + (self.player.stats.strength \div 3)
                 dmg == IF is_crit THEN CritDamage(base) ELSE base
             IN  Handled([self EXCEPT !.enemy = enemy_take_damage(self.enemy, dmg).c,
                                      !.stats = add_damage_dealt(self.stats, dmg, is_crit)],
                         TRUE)
        ELSE LET n == ParseInt(choice)
                 idx == n.val - 1
             IN  IF ~n.ok THEN Handled(self, FALSE)
                 ELSE IF 0 <= idx /\ idx < Len(weapons)
                 THEN LET a == attack(self.player, weapons[idx + 1].name, self.enemy, is_crit)
                      IN  IF a.exc # "none" THEN Failed(self, a.exc)
                          ELSE Handled([self EXCEPT
                                           !.player = a.c,
                                           !.enemy = a.e,
                                           !.stats = add_damage_dealt(self.stats, a.ret[1],
                                                                      a.ret[2])],
                                       TRUE)
                 ELSE Handled(self, FALSE)

\* CombatEncounter.handle_player_item; choice is the text typed at the item prompt
handle_player_item(self, choice) ==
    LET usable == display_usable_items(self)
    IN  IF usable = << >> THEN Handled(self, FALSE)
        ELSE LET n == ParseInt(choice)
                 idx == n.val - 1
             IN  IF ~n.ok \/ idx = -1 THEN Handled(self, FALSE)
                 ELSE IF 0 <= idx /\ idx < Len(usable)
                 THEN LET u == use_item(self.player, usable[idx + 1].name)
                      IN  IF u.exc # "none" THEN Failed([self EXCEPT !.player = u.c], u.exc)
                          ELSE Handled([self EXCEPT !.player = u.c,
                                                    !.stats.items_used = @ + 1],
                                       TRUE)
                 ELSE Handled(self, FALSE)

\* CombatEncounter.handle_player_defend
handle_player_defend(self) == Handled([self EXCEPT !.player = defend(self.player)], TRUE)

\* a variant of FleeChance that is the same against every rank
FleeChance_NoHalving(self) == 2 * (FLEE_BASE_CHANCE + self.player.stats.agility)

\* flee_chance of handle_player_flee, over 2 * PROB_DEN
FleeChance(self) ==
    IF self.enemy.rank \in {"BOSS", "LEGENDARY"}
    THEN FLEE_BASE_CHANCE + self.player.stats.agility
    ELSE 2 * (FLEE_BASE_CHANCE + self.player.stats.agility)

\* the outcomes of random() < num / den
RollOf(num, den) == {b \in BOOLEAN : IF b THEN num > 0 ELSE num < den}

\* a variant of handle_player_flee that ends the session without a result
handle_player_flee_NoResult(self, escaped) ==
    IF escaped THEN Handled([self EXCEPT !.is_active = FALSE], TRUE)
    ELSE Handled(self, TRUE)

\* CombatEncounter.handle_player_flee; escaped is the outcome of
\* random() < flee_chance
handle_player_flee(self, escaped) ==
    IF escaped THEN Handled([self EXCEPT !.result = "FLED", !.is_active = FALSE], TRUE)
    ELSE Handled(self, TRUE)

\* a variant of PlayerChoice in which the Status selection completes the action
PlayerChoice_StatusCompletes(self, choice, sub, is_crit, escaped) ==
    LET h == CASE choice = "1" -> handle_player_attack(self, sub, is_crit)
               [] choice = "2" -> handle_player_item(self, sub)
               [] choice = "3" -> handle_player_defend(self)
               [] choice = "4" /\ self.allow_flee -> handle_player_flee(self, escaped)
               [] choice = "5" -> Handled(self, TRUE)
               [] OTHER -> Handled(self, FALSE)
    IN  [self |-> h.self, action_completed |-> h.ret, exc |-> h.exc]

\* a variant of PlayerChoice in which an exception of the handler ends the half-turn
PlayerChoice_ErrorEndsTurn(self, choice, sub, is_crit, escaped) ==
    LET h == CASE choice = "1" -> handle_player_attack(self, sub, is_crit)
               [] choice = "2" -> handle_player_item(self, sub)
               [] choice = "3" -> handle_player_defend(self)
               [] choice = "4" /\ self.allow_flee -> handle_player_flee(self, escaped)
               [] OTHER -> Handled(self, FALSE)
    IN  [self |-> h.self, action_completed |-> h.ret \/ h.exc # "none", exc |-> h.exc]

\* one pass of the loop of CombatEncounter.player_turn: the action typed at the
\* menu and what its handler does; an exception of the handler is caught and the
\* action is not completed
PlayerChoice(self, choice, sub, is_crit, escaped) ==
    LET h == CASE choice = "1" -> handle_player_attack(self, sub, is_crit)
               [] choice = "2" -> handle_player_item(self, sub)
               [] choice = "3" -> handle_player_defend(self)
               [] choice = "4" /\ self.allow_flee -> handle_player_flee(self, escaped)
               [] OTHER -> Handled(self, FALSE)
    IN  [self |-> h.self, action_completed |-> h.ret, exc |-> h.exc]

\* a variant of enemy_turn that does not look at is_active
enemy_turn_WhenInactive(self, roll1, roll2, pick, u, dodged, escaped) ==
    IF ~enemy_is_alive(self.enemy) THEN self
    ELSE LET t  == execute_turn(self.enemy, self.player, roll1, roll2, pick, u, dodged)
             s1 == [self EXCEPT !.phase = "ENEMY_TURN", !.enemy = t.e, !.player = t.target]
         IN  CASE t.ret = "attack" -> [s1 EXCEPT !.stats = add_damage_taken(s1.stats, 0)]
               [] t.ret = "flee" ->
                      IF ~enemy_is_alive(s1.enemy) \/ escaped
                      THEN [s1 EXCEPT !.result = "VICTORY", !.is_active = FALSE]
                      ELSE s1
               [] OTHER -> s1

\* a variant of enemy_turn that scores the enemy's flight as FLED
enemy_turn_ScoresFled(self, roll1, roll2, pick, u, dodged, escaped) ==
    IF ~self.is_active \/ ~enemy_is_alive(self.enemy) THEN self
    ELSE LET t  == execute_turn(self.enemy, self.player, roll1, roll2, pick, u, dodged)
             s1 == [self EXCEPT !.phase = "ENEMY_TURN", !.enemy = t.e, !.player = t.target]
         IN  CASE t.ret = "attack" -> [s1 EXCEPT !.stats = add_damage_taken(s1.stats, 0)]
               [] t.ret = "flee" ->
                      IF ~enemy_is_alive(s1.enemy) \/ escaped
                      THEN [s1 EXCEPT !.result = "FLED", !.is_active = FALSE]
                      ELSE s1
               [] OTHER -> s1

\* CombatEncounter.enemy_turn; escaped is the outcome of random() < 0.3
enemy_turn(self, roll1, roll2, pick, u, dodged, escaped) ==
    IF ~self.is_active \/ ~enemy_is_alive(self.enemy) THEN self
    ELSE LET t  == execute_turn(self.enemy, self.player, roll1, roll2, pick, u, dodged)
             s1 == [self EXCEPT !.phase = "ENEMY_TURN", !.enemy = t.e, !.player = t.target]
         IN  CASE t.ret = "attack" -> [s1 EXCEPT !.stats = add_damage_taken(s1.stats, 0)]
               [] t.ret = "flee" ->
                      IF ~enemy_is_alive(s1.enemy) \/ escaped
                      THEN [s1 EXCEPT !.result = "VICTORY", !.is_active = FALSE]
                      ELSE s1
               [] OTHER -> s1

\* a variant of check_combat_end that looks at the enemy first
check_combat_end_EnemyFirst(self) ==
    IF ~enemy_is_alive(self.enemy)
    THEN Handled([self EXCEPT !.result = "VICTORY", !.is_active = FALSE], TRUE)
    ELSE IF ~is_alive(self.player)
    THEN Handled([self EXCEPT !.result = "DEFEAT", !.is_active = FALSE], TRUE)
    ELSE Handled(self, FALSE)

\* CombatEncounter.check_combat_end
check_combat_end(self) ==
    IF ~is_alive(self.player)
    THEN Handled([self EXCEPT !.result = "DEFEAT", !.is_active = FALSE], TRUE)
    ELSE IF ~enemy_is_alive(self.enemy)
    THEN Handled([self EXCEPT !.result = "VICTORY", !.is_active = FALSE], TRUE)
    ELSE Handled(self, FALSE)

\* the loop over the loot's items: add_item's exception is caught per item
RECURSIVE AddItems(_, _)
AddItems(c, items) ==
    IF items = << >> THEN c ELSE AddItems(add_item(c, Head(items)).c, Tail(items))

\* a variant of award_victory_rewards in which an item that does not fit
\* cancels the xp and the gold
award_victory_rewards_AllOrNothing(self, gold, rolls) ==
    LET loot == get_loot(self.enemy, gold, rolls)
        c1 == gain_experience(self.player, loot.xp).c
        c2 == [c1 EXCEPT !.gold = @ + loot.gold]
    IN  IF Len(self.player.inventory) + Len(loot.items) > MAX_INVENTORY_SIZE
        THEN [self EXCEPT !.player = AddItems(self.player, loot.items)]
        ELSE [self EXCEPT !.player = AddItems(c2, loot.items)]

\* CombatEncounter.award_victory_rewards; gold and rolls are the random values
\* roll_loot draws
award_victory_rewards(self, gold, rolls) ==
    LET loot == get_loot(self.enemy, gold, rolls)
        c1 == gain_experience(self.player, loot.xp).c
        c2 == [c1 EXCEPT !.gold = @ + loot.gold]
    IN  [self EXCEPT !.player = AddItems(c2, loot.items)]

(***************************************************************************)
(* character.py: saving and loading a Character                            *)
(***************************************************************************)
\* Stats.to_dict and Stats.from_dict: the five fields, by name
stats_to_dict(st) == [k \in StatNames |-> st[k]]
stats_from_dict(data) == [k \in StatNames |-> data[k]]

\* Equipment.to_dict and Equipment.from_dict: the four slots, by name
equipment_to_dict(eq) == [sl \in SlotNames |-> eq[sl]]
equipment_from_dict(data) == [sl \in SlotNames |-> Get(data, sl, None)]

\* Character.to_dict: the class is saved by its name, the pools by their
\* fields _health, _max_health, ...; is_defending is not saved
to_dict(c) ==
    [ name |-> c.name,
      character_class |-> c.character_class,
      level |-> c.level,
      experience |-> c.experience,
      health |-> c.health,
      max_health |-> c.base_max_health,
      mana |-> c.mana,
      max_mana |-> c.base_max_mana,
      stamina |-> c.stamina,
      max_stamina |-> c.base_max_stamina,
      stats |-> stats_to_dict(c.stats),
      available_stat_points |-> c.available_stat_points,
      skill_points |-> c.skill_points,
      equipment |-> equipment_to_dict(c.equipment),
      inventory |-> c.inventory,
      skills |-> c.skills,
      gold |-> c.gold,
      status_effects |-> c.status_effects ]

\* the Character cls(name, character_class, level, experience) that from_dict
\* constructs before it overrides the fields
FromDictBase(data) ==
    LET class_name == Get(data, "character_class", "WARRIOR")
        char_class == IF class_name \in DOMAIN CLASS_STATS THEN class_name ELSE "WARRIOR"
    IN  NewCharacter(data.name, char_class, DEFAULT_HEALTH, DEFAULT_MANA, DEFAULT_STAMINA,
                     Get(data, "level", 1), Get(data, "experience", 0))

\* a variant of from_dict that loads the pools through the property setters,
\* which clamp to the maxima of the Character under construction
from_dict_ThroughSetters(data) ==
    LET char == FromDictBase(data)
        c1 == [char EXCEPT !.base_max_health = Get(data, "max_health", char.base_max_health),
                           !.base_max_mana = Get(data, "max_mana", char.base_max_mana),
                           !.base_max_stamina = Get(data, "max_stamina", char.base_max_stamina)]
        c2 == set_stamina(set_mana(set_health(c1, Get(data, "health", char.health)),
                                   Get(data, "mana", char.mana)),
                          Get(data, "stamina", char.stamina))
    IN  [c2 EXCEPT !.stats = IF "stats" \in DOMAIN data THEN stats_from_dict(data.stats) ELSE @,
                   !.available_stat_points = Get(data, "available_stat_points", 0),
                   !.skill_points = Get(data, "skill_points", 0),
                   !.gold = Get(data, "gold", 0),
                   !.equipment = IF "equipment" \in DOMAIN data
                                 THEN equipment_from_dict(data.equipment) ELSE @,
                   !.inventory = @ \o Get(data, "inventory", << >>),
                   !.skills = Get(data, "skills", << >>),
                   !.status_effects = Get(data, "status_effects", << >>)]

\* Character.from_dict: the fields are assigned directly, without the setters
from_dict(data) ==
    LET char == FromDictBase(data)
    IN  [char EXCEPT !.health = Get(data, "health", char.health),
                     !.base_max_health = Get(data, "max_health", char.base_max_health),
                     !.mana = Get(data, "mana", char.mana),
                     !.base_max_mana = Get(data, "max_mana", char.base_max_mana),
                     !.stamina = Get(data, "stamina", char.stamina),
                     !.base_max_stamina = Get(data, "max_stamina", char.base_max_stamina),
                     !.stats = IF "stats" \in DOMAIN data THEN stats_from_dict(data.stats) ELSE @,
                     !.available_stat_points = Get(data, "available_stat_points", 0),
                     !.skill_points = Get(data, "skill_points", 0),
                     !.gold = Get(data, "gold", 0),
                     !.equipment = IF "equipment" \in DOMAIN data
                                   THEN equipment_from_dict(data.equipment) ELSE @,
                     !.inventory = @ \o Get(data, "inventory", << >>),
                     !.skills = Get(data, "skills", << >>),
                     !.status_effects = Get(data, "status_effects", << >>)]

(***************************************************************************)
(* The items and the arguments the model calls the Character with          *)
(***************************************************************************)
Amulet  == [name |-> "Amulet", type |-> "accessory", health_bonus |-> 20, mana_bonus |-> 10]
Elixir  == [name |-> "Elixir", type |-> "potion", heal |-> 30, mana |-> 20, stamina |-> 50]
Catalog == {Amulet, Elixir}

ItemNameArgs == {"Amulet", "ELIXIR"}
SlotArgs     == {"Accessory", "weapon"}
PoolValues   == {-50, 999}
DamageArgs   == {33, 1000}
HealArgs     == {30}
ManaArgs     == {-50, 999}
XpArgs       == {-10, 0, 60, 100}

\* the model's cap on the level a gain_experience call may start from
MaxSimLevel == 2

\* the names of the items the Character holds, in the inventory or equipped
HeldNames(c) ==
    {Lower(c.inventory[i].name) : i \in 1..Len(c.inventory)}
        \cup {Lower(c.equipment[sl].name) : sl \in {x \in SlotNames : c.equipment[x] # None}}

\* CombatEncounter.__init__ has not run: the encounter's fields while the
\* Character is used on its own
NoEncounter ==
    /\ enemy = None
    /\ phase = "START"
    /\ result = "None"
    /\ is_active = FALSE
    /\ turn_number = 0
    /\ stats = None
    /\ allow_flee = FALSE
    /\ pc = "none"
    /\ returned = "None"

\* one call on the Character: the object after it and what the caller saw
Call(op, arg, res) ==
    /\ player' = res.c
    /\ last' = [op |-> op, arg |-> arg, ret |-> res.ret, exc |-> res.exc]
    /\ UNCHANGED combatVars

Init ==
    /\ player = NewCharacter("Rob", "WARRIOR", DEFAULT_HEALTH, DEFAULT_MANA, DEFAULT_STAMINA, 1, 0)
    /\ last = [op |-> "__init__", arg |-> None, ret |-> None, exc |-> "none"]
    /\ NoEncounter

SetHealth  == \E v \in PoolValues : Call("health", v, Return(set_health(player, v), None))
SetMana    == \E v \in PoolValues : Call("mana", v, Return(set_mana(player, v), None))
SetStamina == \E v \in PoolValues : Call("stamina", v, Return(set_stamina(player, v), None))

TakeDamage ==
    \E amount \in DamageArgs, dodged \in Roll(get_dodge_chance(player)) :
        Call("take_damage", amount, take_damage(player, amount, dodged))

Heal        == \E amount \in HealArgs : Call("heal", amount, heal(player, amount))
RestoreMana == \E amount \in ManaArgs :
                   Call("restore_mana", amount, restore_mana(player, amount))
FullRestore == Call("full_restore", None, Return(full_restore(player), None))

AddItem ==
    \E item \in Catalog :
        /\ Lower(item.name) \notin HeldNames(player)   \* names are unique (item contract)
        /\ Call("add_item", item.name, add_item(player, item))

UseItem     == \E n \in ItemNameArgs : Call("use_item", n, use_item(player, n))
EquipItem   == \E n \in ItemNameArgs : Call("equip_item", n, equip_item(player, n))
UnequipItem == \E sl \in SlotArgs : Call("unequip_item", sl, unequip_item(player, sl))

GainExperience ==
    \E amount \in XpArgs :
        /\ player.level < MaxSimLevel
        /\ Call("gain_experience", amount, gain_experience(player, amount))

Next ==
    \/ SetHealth \/ SetMana \/ SetStamina
    \/ TakeDamage \/ Heal \/ RestoreMana \/ FullRestore
    \/ AddItem \/ UseItem \/ EquipItem \/ UnequipItem
    \/ GainExperience

Spec == Init /\ [][Next]_vars

(***************************************************************************)
(* The Character's progression on its own (specification SpecProgress):    *)
(* characters constructed at several levels, gain_experience,              *)
(* allocate_stat_point, and the setters that empty a pool.                 *)
(***************************************************************************)
StartLevels  == {1, 2, MAX_LEVEL}
ProgressXp   == {-10, 0, 50, 10000}
ProgressStat == {"vitality", "LUCK", "charisma"}
DrainValues  == {-50}

\* the model's caps: the level (below MAX_LEVEL) and the experience a
\* gain_experience call may start from, and the stat points a character may
\* have spent
MaxGainLevel == 4
MaxStartXp   == 100
MaxSpent     == 5

\* the stat points spent so far: each level-up gave one skill point and
\* STAT_POINTS_PER_LEVEL stat points
Spent(c) == STAT_POINTS_PER_LEVEL * c.skill_points - c.available_stat_points

InitProgress ==
    /\ \E lv \in StartLevels :
           player = NewCharacter("Rob", "WARRIOR", DEFAULT_HEALTH, DEFAULT_MANA, DEFAULT_STAMINA,
                                 lv, 0)
    /\ last = [op |-> "__init__", arg |-> None, ret |-> None, exc |-> "none"]
    /\ NoEncounter

\* gain_experience with one of the amounts, or with exactly the threshold
GainXp ==
    /\ player.level <= MaxGainLevel \/ player.level = MAX_LEVEL
    /\ player.experience <= MaxStartXp
    /\ \E amount \in ProgressXp
                     \cup (IF player.level < MAX_LEVEL THEN {xp_to_next_level(player)} ELSE {}) :
           Call("gain_experience", amount, gain_experience(player, amount))

AllocateStatPoint ==
    \E st \in ProgressStat :
        /\ Spent(player) < MaxSpent \/ player.available_stat_points <= 0
        /\ LET res == allocate_stat_point(player, st)
           IN  /\ player' = res.c
               /\ last' = [op |-> "allocate_stat_point", arg |-> st, ret |-> res.ret,
                           exc |-> res.exc, printed |-> res.printed]
               /\ UNCHANGED combatVars

DrainHealth  == \E v \in DrainValues : Call("health", v, Return(set_health(player, v), None))
DrainMana    == \E v \in DrainValues : Call("mana", v, Return(set_mana(player, v), None))
DrainStamina == \E v \in DrainValues : Call("stamina", v, Return(set_stamina(player, v), None))

NextProgress ==
    \/ GainXp
    \/ AllocateStatPoint
    \/ DrainHealth \/ DrainMana \/ DrainStamina

SpecProgress == InitProgress /\ [][NextProgress]_vars

(***************************************************************************)
(* Saving and loading (specification SpecSave): the public operations of   *)
(* the Character, and at any point Character.from_dict(player.to_dict())   *)
(* taking the place of the player, as loading a saved game does.           *)
(***************************************************************************)
\* a new warrior, and a mage who has some experience and carries gold (the
\* gold is a public field: rewards and shops add to it)
SaveStarts ==
    {NewCharacter("Rob", "WARRIOR", DEFAULT_HEALTH, DEFAULT_MANA, DEFAULT_STAMINA, 1, 0),
     [NewCharacter("Bilbo", "MAGE", DEFAULT_HEALTH, DEFAULT_MANA, DEFAULT_STAMINA, 1, 40)
         EXCEPT !.gold = 37]}

InitSave ==
    /\ player \in SaveStarts
    /\ last = [op |-> "__init__", arg |-> None, ret |-> None, exc |-> "none"]
    /\ NoEncounter

\* player = Character.from_dict(player.to_dict())
RoundTrip ==
    /\ last.op # "from_dict"
    /\ Call("from_dict", to_dict(player), Return(from_dict(to_dict(player)), None))

\* allocate_stat_point by a Character that has points to spend
SpendPoint ==
    /\ player.available_stat_points > 0
    /\ Call("allocate_stat_point", "agility", allocate_stat_point(player, "agility"))

NextSave ==
    \/ FullRestore
    \/ AddItem \/ UseItem \/ EquipItem \/ UnequipItem
    \/ GainExperience
    \/ SpendPoint
    \/ RoundTrip

SpecSave == InitSave /\ [][NextSave]_vars

(***************************************************************************)
(* Loading any save (specification SpecLoad): Character.from_dict called   *)
(* on field-value structures that no to_dict need have written: pools     *)
(* above their maximum or negative, and structures with keys missing.      *)
(***************************************************************************)
\* the structure of test_from_dict: no stat points, equipment, skills or
\* status effects
LoadedHero ==
    [ name |-> "LoadedHero", character_class |-> "ROGUE", level |-> 5, experience |-> 250,
      health |-> 80, max_health |-> 120, mana |-> 40, max_mana |-> 70,
      stamina |-> 100, max_stamina |-> 100,
      stats |-> [strength |-> 15, agility |-> 20, intelligence |-> 10, vitality |-> 12,
                 luck |-> 8],
      inventory |-> <<[name |-> "Dagger", type |-> "weapon"]>>,
      gold |-> 500 ]

\* the stored values of a pool and of its maximum
StoredCurrents == {-5, 0, 80, 120, 999}
StoredMaxima   == {100, 120}

\* the structures loaded: the test's and a warrior's own save, with the stored
\* pools replaced; and a structure with nothing but a name
SaveFiles ==
    {[d EXCEPT !.health = h, !.max_health = mh, !.mana = m, !.max_mana = mm, !.stamina = st] :
        d \in {LoadedHero, to_dict(NewCharacter("Rob", "WARRIOR", DEFAULT_HEALTH, DEFAULT_MANA,
                                                DEFAULT_STAMINA, 1, 0))},
        h \in StoredCurrents, mh \in StoredMaxima, m \in StoredCurrents, mm \in StoredMaxima,
        st \in {-5, 999}}
      \cup {[name |-> "Nobody"]}

InitLoad ==
    /\ player = NewCharacter("Rob", "WARRIOR", DEFAULT_HEALTH, DEFAULT_MANA, DEFAULT_STAMINA, 1, 0)
    /\ last = [op |-> "__init__", arg |-> None, ret |-> None, exc |-> "none"]
    /\ NoEncounter

\* player = Character.from_dict(data)
Load ==
    /\ last.op = "__init__"
    /\ \E data \in SaveFiles : Call("load", data, Return(from_dict(data), None))

\* the first operations on the character loaded
LoadedHeal == last.op = "load" /\ Heal
LoadedTakeDamage == last.op = "load" /\ TakeDamage

NextLoad ==
    \/ Load
    \/ LoadedHeal
    \/ LoadedTakeDamage

SpecLoad == InitLoad /\ [][NextLoad]_vars

(***************************************************************************)
(* One session of CombatEncounter.start (specification SpecCombat). pc is  *)
(* the position inside start(): "init" before the call, "loop" at the      *)
(* while test, "player_turn" at the action prompt, "check1" and "check2"   *)
(* at the two calls of check_combat_end, "enemy_turn" before enemy_turn(), *)
(* "ending" after the loop and "returned" once start() has returned.       *)
(***************************************************************************)
Sword == [name |-> "Sword", type |-> "weapon", damage |-> 20]

\* create_goblin(rank=MINION), create_wolf(rank=ELITE), create_dragon(),
\* create_skeleton(rank=LEGENDARY); the fourth argument is the xp_reward of the
\* enemy type in ENEMY_TYPES
Goblin == NewEnemy(30, 8, 2, 15, "MINION", "COWARD")
Wolf   == NewEnemy(35, 12, 2, 25, "ELITE", "BERSERKER")
Dragon == NewEnemy(300, 50, 25, 500, "BOSS", "TACTICAL")
Skeleton == NewEnemy(25, 10, 0, 20, "LEGENDARY", "AGGRESSIVE")
Enemies == {Goblin, Wolf, Dragon, Skeleton}

\* the players that enter a session: a new warrior, bare-handed or carrying a
\* sword and an elixir, unhurt or wounded (and alive: the adventure menu refuses
\* combat to a dead character)
Bare  == NewCharacter("Rob", "WARRIOR", DEFAULT_HEALTH, DEFAULT_MANA, DEFAULT_STAMINA, 1, 0)
Armed == add_item(add_item(Bare, Sword).c, Elixir).c
StartHealths == {20, 999}
PlayerStarts == {set_health(c, h) : c \in {Bare, Armed}, h \in StartHealths}

\* the random outcomes the model draws: random() in hundredths for
\* choose_action, random.uniform(0.9, 1.1) in hundredths for attack_target
RollSamples    == {5, 20, 35, 55, 80}
UniformSamples == {90, 100, 110}
MenuChoices    == {"1", "2", "3", "4", "5", "x"}
SubChoices     == {"1", "2", "9", "x"}

\* the model's cap on the number of turns of a session
MaxTurns == 2

\* the encounter object made of the variables, and the variables made of it
Self ==
    [player |-> player, enemy |-> enemy, allow_flee |-> allow_flee, phase |-> phase,
     result |-> result, stats |-> stats, turn_number |-> turn_number,
     is_active |-> is_active]

Becomes(self) ==
    /\ player' = self.player
    /\ enemy' = self.enemy
    /\ allow_flee' = self.allow_flee
    /\ phase' = self.phase
    /\ result' = self.result
    /\ stats' = self.stats
    /\ turn_number' = self.turn_number
    /\ is_active' = self.is_active

Did(op, arg, ret, exc) == last' = [op |-> op, arg |-> arg, ret |-> ret, exc |-> exc]

InitCombat ==
    /\ \E p \in PlayerStarts, e \in Enemies, flee \in BOOLEAN :
           LET self == NewEncounter(p, e, flee)
           IN  /\ player = self.player
               /\ enemy = self.enemy
               /\ allow_flee = self.allow_flee
               /\ phase = self.phase
               /\ result = self.result
               /\ stats = self.stats
               /\ turn_number = self.turn_number
               /\ is_active = self.is_active
    /\ last = [op |-> "CombatEncounter", arg |-> None, ret |-> None, exc |-> "none"]
    /\ pc = "init"
    /\ returned = "None"

\* start() is called
StartCall ==
    /\ pc = "init"
    /\ pc' = "loop"
    /\ Did("start", None, None, "none")
    /\ UNCHANGED <<player, enemy, phase, result, is_active, turn_number, stats,
                   allow_flee, returned>>

\* while self.is_active: the counters, then player_turn() up to its first prompt
LoopEnter ==
    /\ pc = "loop"
    /\ is_active
    /\ turn_number < MaxTurns
    /\ Becomes([Self EXCEPT !.turn_number = @ + 1,
                            !.stats.turns_elapsed = @ + 1,
                            !.phase = "PLAYER_TURN"])
    /\ pc' = "player_turn"
    /\ Did("loop", None, None, "none")
    /\ UNCHANGED returned

\* while self.is_active: the session is over
LoopExit ==
    /\ pc = "loop"
    /\ ~is_active
    /\ pc' = "ending"
    /\ Did("loop", None, None, "none")
    /\ UNCHANGED <<player, enemy, phase, result, is_active, turn_number, stats,
                   allow_flee, returned>>

\* player_turn(): one answer at the action prompt and its handler. The second
\* prompt is shown by Attack and Use Item only, the critical-hit roll is drawn by
\* an attack and the escape roll by a flee.
PlayerTurn ==
    /\ pc = "player_turn"
    /\ \E choice \in MenuChoices :
       \E sub \in (IF choice \in {"1", "2"} THEN SubChoices ELSE {"1"}),
          is_crit \in (IF choice = "1" THEN Roll(get_crit_chance(player)) ELSE {FALSE}),
          escaped \in (IF choice = "4" THEN RollOf(FleeChance(Self), 2 * PROB_DEN)
                       ELSE {FALSE}) :
           LET r == PlayerChoice(Self, choice, sub, is_crit, escaped)
           IN  /\ Becomes(r.self)
               /\ pc' = IF r.action_completed \/ ~r.self.is_active
                        THEN "check1" ELSE "player_turn"
               /\ Did("player_turn", choice, r.action_completed, r.exc)
    /\ UNCHANGED returned

\* if self.check_combat_end(): break, after the player's turn
Check1 ==
    /\ pc = "check1"
    /\ LET r == check_combat_end(Self)
       IN  /\ Becomes(r.self)
           /\ pc' = IF r.ret THEN "ending" ELSE "enemy_turn"
           /\ Did("check_combat_end", None, r.ret, "none")
    /\ UNCHANGED returned

\* self.enemy_turn(); the flee branch, which draws the escape roll, is selected
\* by a COWARD only. The action execute_turn reported is kept ("none" when
\* enemy_turn returned at once).
EnemyTurn ==
    /\ pc = "enemy_turn"
    /\ \E roll1 \in RollSamples,
          roll2 \in (IF enemy.behavior = "TACTICAL" THEN RollSamples ELSE {0}),
          pick \in (IF ReadyAbilities(enemy) = {} THEN {0} ELSE ReadyAbilities(enemy)),
          u \in UniformSamples,
          dodged \in Roll(get_dodge_chance(player)),
          escaped \in (IF enemy.behavior = "COWARD" THEN BOOLEAN ELSE {FALSE}) :
           /\ Becomes(enemy_turn(Self, roll1, roll2, pick, u, dodged, escaped))
           /\ Did("enemy_turn", None,
                  IF is_active /\ enemy_is_alive(enemy)
                  THEN execute_turn(enemy, player, roll1, roll2, pick, u, dodged).ret
                  ELSE "none",
                  "none")
    /\ pc' = "check2"
    /\ UNCHANGED returned

\* a variant of the loop without the terminal check after the enemy's turn
Check2_Skipped ==
    /\ pc = "check2"
    /\ pc' = "loop"
    /\ Did("check_combat_end", None, FALSE, "none")
    /\ UNCHANGED <<player, enemy, phase, result, is_active, turn_number, stats,
                   allow_flee, returned>>

\* if self.check_combat_end(): break, after the enemy's turn
Check2 ==
    /\ pc = "check2"
    /\ LET r == check_combat_end(Self)
       IN  /\ Becomes(r.self)
           /\ pc' = IF r.ret THEN "ending" ELSE "loop"
           /\ Did("check_combat_end", None, r.ret, "none")
    /\ UNCHANGED returned

\* after the loop: the phase, the rewards of a victory, the value returned
Finish ==
    /\ pc = "ending"
    /\ \E gold \in {enemy.loot_table.gold_range[1], enemy.loot_table.gold_range[2]} :
           LET s1 == [Self EXCEPT !.phase = "END"]
               s2 == IF s1.result = "VICTORY" THEN award_victory_rewards(s1, gold, << >>)
                     ELSE s1
           IN  Becomes(s2)
    /\ returned' = IF result = "None" THEN "ONGOING" ELSE result
    /\ pc' = "returned"
    /\ Did("start", None, returned', "none")

NextCombat ==
    \/ StartCall
    \/ LoopEnter
    \/ LoopExit
    \/ PlayerTurn
    \/ Check1
    \/ EnemyTurn
    \/ Check2
    \/ Finish

SpecCombat == InitCombat /\ [][NextCombat]_vars

(***************************************************************************)
(* start() called again on an encounter that has returned (specification   *)
(* SpecRestart): the sessions of SpecCombat, followed by further calls of  *)
(* start() on the same CombatEncounter object.                             *)
(***************************************************************************)
\* the number of start() calls made on one encounter
MaxStarts == 3

\* the calls of start() made so far on the encounter that has returned
StartCalls == IF "calls" \in DOMAIN last THEN last.calls ELSE 1

\* start() on an encounter whose is_active is False: the while loop is not
\* entered, the phase is set to END, a result of VICTORY awards the rewards,
\* and the result is returned
StartAgain ==
    /\ pc = "returned"
    /\ ~is_active
    /\ StartCalls < MaxStarts
    /\ \E gold \in {enemy.loot_table.gold_range[1], enemy.loot_table.gold_range[2]} :
           LET s1 == [Self EXCEPT !.phase = "END"]
               s2 == IF s1.result = "VICTORY" THEN award_victory_rewards(s1, gold, << >>)
                     ELSE s1
           IN  Becomes(s2)
    /\ returned' = IF result = "None" THEN "ONGOING" ELSE result
    /\ pc' = "returned"
    /\ last' = [op |-> "start", arg |-> None, ret |-> returned', exc |-> "none",
                calls |-> StartCalls + 1]

NextRestart == NextCombat \/ StartAgain

SpecRestart == InitCombat /\ [][NextRestart]_vars

(***************************************************************************)
(* Sessions of a player who attacks at every half-turn (specifications     *)
(* SpecSiege and SpecSiegeFair): the loop of start() against enemies of    *)
(* few health points and a defense above the player's damage.              *)
(***************************************************************************)
\* enemies of max_health 3 and defense 30, 15 and 45, and the goblin
Tortoise == NewEnemy(3, 6, 30, 15, "NORMAL", "DEFENSIVE")
Sneak    == NewEnemy(6, 40, 30, 15, "MINION", "COWARD")
Knight   == NewEnemy(2, 10, 30, 25, "ELITE", "TACTICAL")
SiegeEnemies == {Tortoise, Sneak, Knight, Goblin}

\* the players: bare-handed or armed, nearly dead or unhurt
SiegeHealths == {5, 999}
SiegePlayers == {set_health(c, h) : c \in {Bare, Armed}, h \in SiegeHealths}

\* the model's cap on the turns of these sessions, above every max_health of
\* the enemies of three points
MaxSiegeTurns == 5

InitSiege ==
    /\ \E p \in SiegePlayers, e \in SiegeEnemies, flee \in BOOLEAN :
           LET self == NewEncounter(p, e, flee)
           IN  /\ player = self.player
               /\ enemy = self.enemy
               /\ allow_flee = self.allow_flee
               /\ phase = self.phase
               /\ result = self.result
               /\ stats = self.stats
               /\ turn_number = self.turn_number
               /\ is_active = self.is_active
    /\ last = [op |-> "CombatEncounter", arg |-> None, ret |-> None, exc |-> "none"]
    /\ pc = "init"
    /\ returned = "None"

\* while self.is_active: the counters, then player_turn() up to its first prompt
SiegeLoopEnter ==
    /\ pc = "loop"
    /\ is_active
    /\ turn_number < MaxSiegeTurns
    /\ Becomes([Self EXCEPT !.turn_number = @ + 1,
                            !.stats.turns_elapsed = @ + 1,
                            !.phase = "PLAYER_TURN"])
    /\ pc' = "player_turn"
    /\ Did("loop", None, None, "none")
    /\ UNCHANGED returned

\* the answers at the weapon prompt that name a listed weapon; without a weapon
\* there is no prompt
ListedWeapons(self) ==
    IF display_weapons(self) = << >> THEN {"1"}
    ELSE {sub \in SubChoices :
              /\ ParseInt(sub).ok
              /\ ParseInt(sub).val \in 1..Len(display_weapons(self))}

\* player_turn(): the player answers "1" at the action prompt and names a listed
\* weapon at the weapon prompt
SiegeAttack ==
    /\ pc = "player_turn"
    /\ \E sub \in ListedWeapons(Self), is_crit \in Roll(get_crit_chance(player)) :
           LET r == PlayerChoice(Self, "1", sub, is_crit, FALSE)
           IN  /\ Becomes(r.self)
               /\ pc' = IF r.action_completed \/ ~r.self.is_active
                        THEN "check1" ELSE "player_turn"
               /\ Did("player_turn", "1", r.action_completed, r.exc)
    /\ UNCHANGED returned

NextSiege ==
    \/ StartCall
    \/ SiegeLoopEnter
    \/ LoopExit
    \/ SiegeAttack
    \/ Check1
    \/ EnemyTurn
    \/ Check2
    \/ Finish

SpecSiege == InitSiege /\ [][NextSiege]_vars

\* the two half-turns seen from the position of the control flow: the player's
\* answer moves it from the prompt to the first check, the enemy's turn from
\* enemy_turn() to the second check
AttackAnswered == pc = "player_turn" /\ pc' = "check1"
EnemyResponded == pc = "enemy_turn" /\ pc' = "check2"

\* start() is sequential code that runs to its end once it is called: each
\* statement it reaches is executed, the player answers each prompt it shows and
\* each enemy turn it begins returns
SpecSiegeFair ==
    /\ SpecSiege
    /\ WF_vars(StartCall)
    /\ WF_vars(SiegeLoopEnter)
    /\ WF_vars(LoopExit)
    /\ WF_pc(AttackAnswered)
    /\ WF_vars(Check1)
    /\ WF_pc(EnemyResponded)
    /\ WF_vars(Check2)
    /\ WF_vars(Finish)

(***************************************************************************)
(* Sessions of a player who carries items (specification SpecItems): the   *)
(* same loop, entered with a potion that has no effect, an elixir and a    *)
(* sword in the inventory.                                                 *)
(***************************************************************************)
\* a potion without heal, mana or stamina: _use_potion raises ItemNotUsableError
EmptyFlask == [name |-> "Empty Flask", type |-> "potion"]

Packed == AddItems(Bare, <<EmptyFlask, Elixir, Sword>>)

InitItems ==
    /\ \E h \in StartHealths, e \in {Goblin, Wolf}, flee \in BOOLEAN :
           LET self == NewEncounter(set_health(Packed, h), e, flee)
           IN  /\ player = self.player
               /\ enemy = self.enemy
               /\ allow_flee = self.allow_flee
               /\ phase = self.phase
               /\ result = self.result
               /\ stats = self.stats
               /\ turn_number = self.turn_number
               /\ is_active = self.is_active
    /\ last = [op |-> "CombatEncounter", arg |-> None, ret |-> None, exc |-> "none"]
    /\ pc = "init"
    /\ returned = "None"

SpecItems == InitItems /\ [][NextCombat]_vars

(***************************************************************************)
(* The loot of a defeated enemy (specification SpecLoot): roll_loot called *)
(* on a table, and award_victory_rewards called on a new encounter whose   *)
(* result was set to VICTORY, as the unit tests do. The rolls are          *)
(* random.random() in hundredths, one for each entry of the table.         *)
(***************************************************************************)
Guaranteed == [name |-> "Guaranteed"]
Gem    == [name |-> "Gem", type |-> "misc", value |-> 40]
Herb   == [name |-> "Herb", type |-> "consumable", effect |-> "heal", value |-> 10]
Coin   == [name |-> "Coin", type |-> "misc"]
Dust   == [name |-> "Dust", type |-> "misc"]
Pebble == [name |-> "Pebble", type |-> "misc"]

\* the table of test_roll_items, and a table whose entries have the chances
\* 1.0, 0.5, none (the default 0.1) and 0.0
TestTable  == [gold_range |-> <<1, 1>>, xp_reward |-> 10,
               items |-> <<[item |-> Guaranteed, drop_chance |-> 100]>>]
HoardTable == [gold_range |-> <<10, 12>>, xp_reward |-> 50,
               items |-> <<[item |-> Gem, drop_chance |-> 100],
                           [item |-> Herb, drop_chance |-> 50],
                           [item |-> Coin],
                           [item |-> Dust, drop_chance |-> 0]>>]
LootTables == {Goblin.loot_table, Dragon.loot_table, TestTable, HoardTable}
LootRolls  == {0, 9, 10, 49, 50, 99}

\* the winners: a warrior short of or close to the next level, whose inventory
\* is empty, nearly full or full
LootXp     == {0, 60}
LootLoads  == {0, 47, 48, 49, 50}
\* the Character after n calls add_item(Pebble), none of which overflows
Laden(c, n) == [c EXCEPT !.inventory = [i \in 1..n |-> Pebble]]
LootPlayers ==
    {Laden(NewCharacter("Rob", "WARRIOR", DEFAULT_HEALTH, DEFAULT_MANA, DEFAULT_STAMINA, 1, x), n) :
        x \in LootXp, n \in LootLoads}

InitLoot ==
    /\ \E p \in LootPlayers, t \in LootTables :
           LET self == [NewEncounter(p, [Goblin EXCEPT !.loot_table = t], TRUE)
                           EXCEPT !.result = "VICTORY"]
           IN  /\ player = self.player
               /\ enemy = self.enemy
               /\ allow_flee = self.allow_flee
               /\ phase = self.phase
               /\ result = self.result
               /\ stats = self.stats
               /\ turn_number = self.turn_number
               /\ is_active = self.is_active
    /\ last = [op |-> "CombatEncounter", arg |-> None, ret |-> None, exc |-> "none"]
    /\ pc = "none"
    /\ returned = "None"

\* the random values one call of roll_loot draws
GoldRolls(t) == t.gold_range[1]..t.gold_range[2]
ItemRolls(t) == [1..Len(t.items) -> LootRolls]

\* enemy.loot_table.roll_loot() called alone
RollLoot ==
    /\ last.op = "CombatEncounter"
    /\ \E gold \in GoldRolls(enemy.loot_table), rolls \in ItemRolls(enemy.loot_table) :
           Did("roll_loot", <<gold, rolls>>, roll_loot(enemy.loot_table, gold, rolls), "none")
    /\ UNCHANGED <<player, enemy, phase, result, is_active, turn_number, stats,
                   allow_flee, pc, returned>>

\* encounter.award_victory_rewards() called on the encounter
AwardVictoryRewards ==
    /\ last.op = "CombatEncounter"
    /\ \E gold \in GoldRolls(enemy.loot_table), rolls \in ItemRolls(enemy.loot_table) :
           /\ Becomes(award_victory_rewards(Self, gold, rolls))
           /\ Did("award_victory_rewards", <<gold, rolls>>,
                  get_loot(enemy, gold, rolls), "none")
    /\ UNCHANGED <<pc, returned>>

NextLoot ==
    \/ RollLoot
    \/ AwardVictoryRewards

SpecLoot == InitLoot /\ [][NextLoot]_vars

(***************************************************************************)
(* The inventory near its capacity (specification SpecBag): add_item,      *)
(* remove_item, use_item, equip_item, unequip_item and the rewards of a    *)
(* victory, on a Character whose inventory is empty, nearly full or full.  *)
(* The dict a caller passes to add_item is an object the caller keeps: it  *)
(* carries the field "object", and the caller may change it afterwards.    *)
(***************************************************************************)
Axe == [name |-> "Axe", type |-> "weapon", damage |-> 30]
BagItems == {Sword, Axe, Elixir}
BagLoads == {0, 48, 49, 50}

\* the Characters the operations start from: n pebbles in the inventory, the
\* axe in hand or not (equipped before the pebbles were added)
BagStarts ==
    {Laden(Bare, n) : n \in BagLoads}
        \cup {Laden(equip_item(add_item(Bare, Axe).c, "Axe").c, n) : n \in BagLoads}

\* the caller's dict for an item of the catalog
CallerItem(item) == [k \in DOMAIN item \cup {"object"} |->
                        IF k = "object" THEN item.name ELSE item[k]]

\* item["damage"] = 100
SetDamage(item) == [k \in DOMAIN item \cup {"damage"} |->
                       IF k = "damage" THEN 100 ELSE item[k]]

\* the Character after the caller changed the dict that is object obj: every
\* reference to that dict shows the change
SeenAfterChange(c, obj) ==
    LET seen(it) == IF it # None /\ "object" \in DOMAIN it /\ it.object = obj
                    THEN SetDamage(it) ELSE it
    IN  [c EXCEPT !.inventory = [i \in 1..Len(c.inventory) |-> seen(c.inventory[i])],
                  !.equipment = [sl \in SlotNames |-> seen(c.equipment[sl])]]

InitBag ==
    /\ player \in BagStarts
    /\ last = [op |-> "__init__", arg |-> None, ret |-> None, exc |-> "none"]
    /\ NoEncounter

\* add_item(item) for an item whose name is not held yet
BagAdd ==
    \E item \in BagItems :
        /\ Lower(item.name) \notin HeldNames(player)
        /\ Call("add_item", CallerItem(item), add_item(player, CallerItem(item)))

\* the caller of add_item changes its dict after the call
BagChange ==
    /\ last.op = "add_item"
    /\ Call("item[damage] = 100", SetDamage(last.arg),
            Return(SeenAfterChange(player, last.arg.object), None))

BagRemove == \E n \in {"SWORD", "Gem"} : Call("remove_item", n, remove_item(player, n))
BagUse    == \E n \in {"ELIXIR", "Sword"} : Call("use_item", n, use_item(player, n))
BagEquip  == \E n \in {"Sword", "AXE", "Elixir"} : Call("equip_item", n, equip_item(player, n))
BagUnequip == \E sl \in {"Weapon", "armor"} : Call("unequip_item", sl, unequip_item(player, sl))

\* award_victory_rewards of an encounter with the hoard's owner, won once
BagReward ==
    /\ player.gold = 0
    /\ \E rolls \in {<<0, 0, 0, 99>>, <<0, 99, 99, 99>>} :
           LET self == NewEncounter(player, [Goblin EXCEPT !.loot_table = HoardTable], TRUE)
           IN  Call("award_victory_rewards", rolls,
                    Return(award_victory_rewards(self, 10, rolls).player,
                           get_loot(self.enemy, 10, rolls)))

NextBag ==
    \/ BagAdd
    \/ BagChange
    \/ BagRemove
    \/ BagUse
    \/ BagEquip
    \/ BagUnequip
    \/ BagReward

SpecBag == InitBag /\ [][NextBag]_vars

(***************************************************************************)
(* The Character's calls that can fail (specification SpecStrike):         *)
(* use_item and attack with names that are held, in another case, of the   *)
(* wrong type or not held at all, by a Character that may be defending,    *)
(* wounded or dead.                                                        *)
(***************************************************************************)
Tonic == [name |-> "Tonic", type |-> "consumable", buff |-> "strength", duration |-> 2]

\* the Characters that make the calls: with a sword, an elixir and a tonic in
\* the inventory, and with the axe in hand or not
StrikeStarts ==
    LET kit(c) == AddItems(c, <<Sword, Elixir, Tonic>>)
    IN  {kit(Bare), kit(equip_item(add_item(Bare, Axe).c, "Axe").c)}
StrikeHealths == {0, 20, 999}
StrikeNames   == {"Sword", "SWORD", "Axe", "ELIXIR", "Tonic", "Pebble"}

InitStrike ==
    /\ \E c \in StrikeStarts, h \in StrikeHealths : player = set_health(c, h)
    /\ enemy = Goblin
    /\ last = [op |-> "__init__", arg |-> None, ret |-> None, exc |-> "none"]
    /\ phase = "START"
    /\ result = "None"
    /\ is_active = FALSE
    /\ turn_number = 0
    /\ stats = None
    /\ allow_flee = FALSE
    /\ pc = "none"
    /\ returned = "None"

StrikeDefend ==
    /\ ~player.is_defending
    /\ Call("defend", None, Return(defend(player), None))

\* player.attack(weapon_name, enemy)
StrikeAttack ==
    /\ enemy_is_alive(enemy)
    /\ \E n \in StrikeNames, is_crit \in Roll(get_crit_chance(player)) :
           LET r == attack(player, n, enemy, is_crit)
           IN  /\ player' = r.c
               /\ enemy' = r.e
               /\ Did("attack", n, r.ret, r.exc)
    /\ UNCHANGED <<phase, result, is_active, turn_number, stats, allow_flee, pc, returned>>

StrikeUse   == \E n \in StrikeNames : Call("use_item", n, use_item(player, n))
StrikeEquip == Call("equip_item", "Sword", equip_item(player, "Sword"))

NextStrike ==
    \/ StrikeDefend
    \/ StrikeAttack
    \/ StrikeUse
    \/ StrikeEquip

SpecStrike == InitStrike /\ [][NextStrike]_vars

(***************************************************************************)
(* The Enemy's health pool (specification SpecEnemyPool): sequences of     *)
(* take_damage, heal and defend_action calls on an enemy, as the unit      *)
(* tests make them, with amounts of either sign.                           *)
(***************************************************************************)
PoolEnemies == {NewEnemy(100, 10, 0, 15, "NORMAL", "BALANCED"),
                NewEnemy(50, 10, 4, 15, "NORMAL", "BALANCED")}
PoolDamages == {-5, 0, 7, 30, 1000}
PoolHeals   == {-10, 0, 30, 1000}

InitEnemyPool ==
    /\ enemy \in PoolEnemies
    /\ player = Bare
    /\ last = [op |-> "Enemy", arg |-> None, ret |-> None, exc |-> "none"]
    /\ phase = "START"
    /\ result = "None"
    /\ is_active = FALSE
    /\ turn_number = 0
    /\ stats = None
    /\ allow_flee = FALSE
    /\ pc = "none"
    /\ returned = "None"

\* a call on the enemy alone
EnemyCall(op, arg, res) ==
    /\ enemy' = res.c
    /\ Did(op, arg, res.ret, res.exc)
    /\ UNCHANGED <<player, phase, result, is_active, turn_number, stats, allow_flee, pc,
                   returned>>

\* the calls are made on an enemy whose health is not negative
PoolTakeDamage ==
    /\ enemy.health >= 0
    /\ \E amount \in PoolDamages :
           EnemyCall("Enemy.take_damage", amount, enemy_take_damage(enemy, amount))

PoolHeal ==
    /\ enemy.health >= 0
    /\ \E amount \in PoolHeals : EnemyCall("Enemy.heal", amount, enemy_heal(enemy, amount))

PoolDefend ==
    /\ ~enemy.is_defending
    /\ EnemyCall("defend_action", None, Return(defend_action(enemy), None))

NextEnemyPool ==
    \/ PoolTakeDamage
    \/ PoolHeal
    \/ PoolDefend

SpecEnemyPool == InitEnemyPool /\ [][NextEnemyPool]_vars

(***************************************************************************)
(* check_combat_end on its own (specification SpecCheckEnd): an encounter  *)
(* whose fighters' healths were set directly, as the unit tests do, before *)
(* or after a session ended.                                               *)
(***************************************************************************)
CheckHealths     == {0, 1, 20, 130}
CheckEnemyHealth == {0, 1, 7, 15}
CheckOutcomes    == {<<"None", TRUE>>, <<"FLED", FALSE>>, <<"VICTORY", FALSE>>,
                     <<"DEFEAT", FALSE>>}

InitCheckEnd ==
    /\ \E ph \in CheckHealths, eh \in CheckEnemyHealth, o \in CheckOutcomes :
           /\ player = [Bare EXCEPT !.health = ph]
           /\ enemy = [Goblin EXCEPT !.health = eh]
           /\ result = o[1]
           /\ is_active = o[2]
    /\ allow_flee = TRUE
    /\ phase = "START"
    /\ stats = NewCombatStats
    /\ turn_number = 0
    /\ last = [op |-> "CombatEncounter", arg |-> None, ret |-> None, exc |-> "none"]
    /\ pc = "init"
    /\ returned = "None"

CheckCombatEnd ==
    /\ LET r == check_combat_end(Self)
       IN  /\ Becomes(r.self)
           /\ Did("check_combat_end", None, r.ret, "none")
    /\ UNCHANGED <<pc, returned>>

NextCheckEnd == CheckCombatEnd

SpecCheckEnd == InitCheckEnd /\ [][NextCheckEnd]_vars

(***************************************************************************)
(* take_damage on its own (specification SpecDamage): one hit on a player  *)
(* or on an enemy, standing or defending, for several defenses and raw     *)
(* damages.                                                                *)
(***************************************************************************)
Plate == [name |-> "Plate", type |-> "armor", defense |-> 1000]

\* Character.from_dict of a saved warrior with that vitality and health
Loaded(vitality, health) ==
    [Bare EXCEPT !.stats.vitality = vitality, !.health = health, !.base_max_health = health]

\* the players hit: a new warrior, one wearing a plate of defense 1000, and a
\* loaded one of defense 0 at health 100
DamagePlayers == {Bare, equip_item(add_item(Bare, Plate).c, "Plate").c, Loaded(0, 100)}
DamageEnemies == {Goblin,
                  NewEnemy(100, 10, 0, 15, "NORMAL", "BALANCED"),
                  NewEnemy(100, 10, 1000, 15, "NORMAL", "BALANCED")}
DamageHealths == {1, 30, 999}
RawDamages    == {-5, 0, 5, 30, 1000}

InitDamage ==
    /\ \E c \in DamagePlayers, h \in DamageHealths : player = set_health(c, h)
    /\ \E e \in DamageEnemies, h \in DamageHealths :
           enemy = [e EXCEPT !.health = Min(h, e.max_health)]
    /\ last = [op |-> "__init__", arg |-> None, ret |-> None, exc |-> "none"]
    /\ phase = "START"
    /\ result = "None"
    /\ is_active = FALSE
    /\ turn_number = 0
    /\ stats = None
    /\ allow_flee = FALSE
    /\ pc = "none"
    /\ returned = "None"

\* the fighters may take a defensive stance before the hit
Fresh == last.op \in {"__init__", "defend", "defend_action"}

PlayerDefends ==
    /\ Fresh /\ ~player.is_defending
    /\ player' = defend(player)
    /\ Did("defend", None, None, "none")
    /\ UNCHANGED combatVars

EnemyDefends ==
    /\ Fresh /\ ~enemy.is_defending
    /\ enemy' = defend_action(enemy)
    /\ Did("defend_action", None, None, "none")
    /\ UNCHANGED <<player, phase, result, is_active, turn_number, stats, allow_flee, pc,
                   returned>>

\* Character.take_damage(amount), with the outcome of the dodge roll
PlayerHit ==
    /\ Fresh
    /\ \E amount \in RawDamages, dodged \in Roll(get_dodge_chance(player)) :
           LET res == take_damage(player, amount, dodged)
           IN  /\ player' = res.c
               /\ last' = [op |-> "take_damage", arg |-> amount, ret |-> res.ret,
                           exc |-> res.exc, dodged |-> dodged]
    /\ UNCHANGED combatVars

\* Enemy.take_damage(amount)
EnemyHit ==
    /\ Fresh
    /\ \E amount \in RawDamages :
           LET res == enemy_take_damage(enemy, amount)
           IN  /\ enemy' = res.c
               /\ Did("Enemy.take_damage", amount, res.ret, res.exc)
    /\ UNCHANGED <<player, phase, result, is_active, turn_number, stats, allow_flee, pc,
                   returned>>

NextDamage ==
    \/ PlayerDefends
    \/ EnemyDefends
    \/ PlayerHit
    \/ EnemyHit

SpecDamage == InitDamage /\ [][NextDamage]_vars

(***************************************************************************)
(* The enemy's behaviour engine on its own (specification SpecEnemy): an   *)
(* enemy of each behaviour, without abilities (NORMAL), with one (ELITE)   *)
(* or with the three of them (LEGENDARY), at healths around the            *)
(* thresholds, takes turns against a warrior; choose_action is also called *)
(* alone, as the unit tests do.                                            *)
(***************************************************************************)
Behaviors   == {"AGGRESSIVE", "DEFENSIVE", "BALANCED", "COWARD", "BERSERKER", "TACTICAL"}
EngineRanks == {"NORMAL", "ELITE", "LEGENDARY"}

\* the health of the enemy when it is observed, in percent of its maximum
EngineHealthPct == {24, 25, 29, 30, 39, 40, 49, 50, 100}

\* random.random() in hundredths, on both sides of every threshold of choose_action
EngineRolls == {0, 9, 10, 24, 25, 29, 30, 39, 40, 49, 50, 59, 60, 99}

\* the model's cap on the number of turns the enemy takes
MaxEnemyTurns == 4

\* the model's cap on the number of turns after which choose_action is called alone
MaxProbeTurns == 1

InitEnemy ==
    /\ \E b \in Behaviors, rank \in EngineRanks, pct \in EngineHealthPct :
           LET e == NewEnemy(40, 10, 2, 15, rank, b)
           IN  enemy = [e EXCEPT !.health = (pct * e.max_health) \div 100]
    /\ player = Bare
    /\ last = [op |-> "Enemy", arg |-> None, ret |-> None, exc |-> "none",
               used_on |-> [i \in 1..Len(enemy.abilities) |-> 0]]
    /\ phase = "START"
    /\ result = "None"
    /\ is_active = FALSE
    /\ turn_number = 0
    /\ stats = None
    /\ allow_flee = FALSE
    /\ pc = "none"
    /\ returned = "None"

\* the second roll is drawn by the TACTICAL branch only
SecondRolls(e, rolls) == IF e.behavior = "TACTICAL" THEN rolls ELSE {0}

\* random.choice among the ready abilities (0 when there is none)
Picks(e) == IF ReadyAbilities(e) = {} THEN {0} ELSE ReadyAbilities(e)

\* enemy.choose_action(target) called alone
ChooseAction ==
    /\ last.op # "choose_action"
    /\ enemy.turns_in_combat <= MaxProbeTurns
    /\ \E roll1 \in EngineRolls, roll2 \in SecondRolls(enemy, EngineRolls) :
           LET ch == choose_action(enemy, roll1, roll2)
           IN  /\ enemy' = ch.e
               /\ Did("choose_action", <<roll1, roll2>>, ch.action, "none")
    /\ UNCHANGED <<player, phase, result, is_active, turn_number, stats, allow_flee, pc,
                   returned>>

\* enemy.execute_turn(target); the index of the ability used is kept (0 if none),
\* and for each ability the turn on which it was last used (0 if never)
ExecuteTurn ==
    /\ last.op # "choose_action"
    /\ enemy.turns_in_combat < MaxEnemyTurns
    /\ \E roll1 \in RollSamples, roll2 \in SecondRolls(enemy, RollSamples),
          pick \in Picks(enemy), dodged \in Roll(get_dodge_chance(player)) :
           LET t == execute_turn(enemy, player, roll1, roll2, pick, 100, dodged)
           IN  /\ enemy' = t.e
               /\ player' = t.target
               /\ last' = [op |-> "execute_turn",
                           arg |-> IF t.ret = "ability" THEN pick ELSE 0,
                           ret |-> t.ret, exc |-> "none",
                           used_on |-> [i \in DOMAIN last.used_on |->
                                            IF t.ret = "ability" /\ pick = i
                                            THEN t.e.turns_in_combat
                                            ELSE last.used_on[i]]]
    /\ UNCHANGED <<phase, result, is_active, turn_number, stats, allow_flee, pc, returned>>

NextEnemy ==
    \/ ChooseAction
    \/ ExecuteTurn

SpecEnemy == InitEnemy /\ [][NextEnemy]_vars

(***************************************************************************)
(* Claims about the Character's pools (specification Spec)                 *)
(***************************************************************************)
\* C1: after any sequence of public mutations every pool satisfies
\* 0 <= current <= max, max being the value the character reports
\* (max_health, max_mana, max_stamina).
C1_PoolsWithinReportedMax ==
    /\ 0 <= player.health  /\ player.health  <= max_health(player)
    /\ 0 <= player.mana    /\ player.mana    <= max_mana(player)
    /\ 0 <= player.stamina /\ player.stamina <= max_stamina(player)

(***************************************************************************)
(* Claims about the encounter (specifications SpecCheckEnd and SpecCombat) *)
(***************************************************************************)
Outcomes == {"VICTORY", "DEFEAT", "FLED"}

\* a step that is a call of check_combat_end
CheckStep == last'.op = "check_combat_end"

\* C2: check_combat_end checks in a fixed order: a player at health 0 gives
\* DEFEAT, even if the enemy is at 0 too; otherwise an enemy at health 0 gives
\* VICTORY; otherwise it returns False and leaves result and is_active as they
\* were. Whenever it returns True, is_active is False.
C2_TerminalCheckOrder ==
    [][CheckStep =>
          /\ player.health = 0 => (result' = "DEFEAT" /\ last'.ret = TRUE)
          /\ (player.health > 0 /\ enemy.health = 0) =>
                 (result' = "VICTORY" /\ last'.ret = TRUE)
          /\ (player.health > 0 /\ enemy.health > 0) =>
                 (last'.ret = FALSE /\ result' = result /\ is_active' = is_active)
          /\ last'.ret = TRUE => ~is_active']_vars

\* C2's case: the check has run with both fighters at health 0 and said DEFEAT
C2_Witness ==
    /\ last.op = "check_combat_end" /\ last.ret = TRUE
    /\ player.health = 0 /\ enemy.health = 0
    /\ result = "DEFEAT" /\ ~is_active

\* C3: in start() the terminal check runs after every half-turn. Once the
\* enemy's health is 0 the enemy does nothing more, no turn follows and the
\* session returns VICTORY; once the player's health is 0 no player action
\* follows and the session returns DEFEAT; the two healths are never both 0.
C3_CheckAfterEveryHalfTurn ==
    /\ [](/\ ~(player.health = 0 /\ enemy.health = 0)
          /\ enemy.health = 0 => pc \in {"check1", "ending", "returned"}
          /\ player.health = 0 => pc \in {"check2", "ending", "returned"}
          /\ (pc = "returned" /\ enemy.health = 0) => returned = "VICTORY"
          /\ (pc = "returned" /\ player.health = 0) => returned = "DEFEAT")
    /\ [][/\ enemy.health = 0 =>
                 (enemy' = enemy /\ player'.health >= player.health
                     /\ turn_number' = turn_number)
          /\ player.health = 0 =>
                 (player' = player /\ enemy' = enemy /\ turn_number' = turn_number)
          /\ (pc = "player_turn" /\ pc' # pc) => pc' = "check1"
          /\ pc = "enemy_turn" => pc' = "check2"]_vars

\* C3's case: the enemy killed in the first half-turn, so that it never acted,
\* and the session returned
C3_Witness ==
    /\ pc = "returned" /\ returned = "VICTORY"
    /\ enemy.health = 0 /\ enemy.turns_in_combat = 0
    /\ turn_number = 1

\* C4: the phase follows Start -> PlayerTurn -> EnemyTurn -> Resolution -> End:
\* Resolution is entered after each half-turn, the loop goes from Resolution
\* back to PlayerTurn, and the phase is End when start() has returned.
C4_PhaseSequence ==
    /\ [][phase' # phase =>
              <<phase, phase'>> \in {<<"START", "PLAYER_TURN">>,
                                     <<"PLAYER_TURN", "RESOLUTION">>,
                                     <<"RESOLUTION", "ENEMY_TURN">>,
                                     <<"ENEMY_TURN", "RESOLUTION">>,
                                     <<"RESOLUTION", "PLAYER_TURN">>,
                                     <<"RESOLUTION", "END">>}]_vars
    /\ [](pc = "returned" => phase = "END")

\* C5: is_active becomes False only in a step that also sets result to VICTORY,
\* DEFEAT or FLED, and the value start() returns is that result, never ONGOING
\* or unset.
C5_EndsOnlyWithOutcome ==
    /\ [][(is_active /\ ~is_active') => (result' \in Outcomes)]_vars
    /\ [](~is_active => result \in Outcomes)
    /\ [](pc = "returned" => (returned \in Outcomes /\ returned = result /\ ~is_active))

\* C5's case: the player fled and start() returned FLED
C5_Witness ==
    /\ pc = "returned" /\ returned = "FLED"
    /\ player.health > 0 /\ enemy.health > 0

(***************************************************************************)
(* Claims about progression                                                *)
(***************************************************************************)
\* a step that is a call of gain_experience / allocate_stat_point that returned
GainStep  == last'.op = "gain_experience" /\ last'.exc = "none"
AllocStep == last'.op = "allocate_stat_point"

\* <<L + 1, ..., L + k>>
LevelsFrom(L, k) == [i \in 1..k |-> L + i]

\* what C6 says of a call that took the character from pre to post and returned ret
LevelUpEffect(pre, post, ret) ==
    LET k == Len(ret)
    IN  /\ ret = LevelsFrom(pre.level, k)
        /\ post.level = pre.level + k
        /\ post.available_stat_points = pre.available_stat_points + k * STAT_POINTS_PER_LEVEL
        /\ post.skill_points = pre.skill_points + k
        /\ post.base_max_health = pre.base_max_health + k * (10 + (pre.stats.vitality \div 5))
        /\ post.base_max_mana = pre.base_max_mana + k * (5 + (pre.stats.intelligence \div 5))
        /\ post.base_max_stamina = pre.base_max_stamina + k * (5 + (pre.stats.agility \div 5))
        /\ k >= 1 => /\ post.health = max_health(post)
                     /\ post.mana = max_mana(post)
                     /\ post.stamina = max_stamina(post)

\* C6: gain_experience(amount > 0) that returns k levels from level L returns
\* [L+1 .. L+k], raises level by k, stat points by k * STAT_POINTS_PER_LEVEL and
\* skill points by k, grows each base maximum once per level, and when k >= 1
\* leaves all three pools completely full (current = the pool's maximum).
C6_LevelUpGrantsAndRefills ==
    [][(GainStep /\ last'.arg > 0) => LevelUpEffect(player, player', last'.ret)]_vars

\* C7: gain_experience never raises level above MAX_LEVEL; after it returns
\* level = MAX_LEVEL or experience < xp_to_next_level; at MAX_LEVEL the amount is
\* added to the counter and nothing else changes; 10,000 experience at level 1
\* with 0 experience gives level > 1 and more than one entry in the list.
C7_LevelCap ==
    [][GainStep =>
         /\ player'.level <= MAX_LEVEL
         /\ player'.level = MAX_LEVEL \/ player'.experience < xp_to_next_level(player')
         /\ (player.level = MAX_LEVEL /\ last'.arg > 0) =>
                /\ last'.ret = << >>
                /\ player' = [player EXCEPT !.experience = player.experience + last'.arg]
         /\ (player.level = 1 /\ player.experience = 0 /\ last'.arg = 10000) =>
                /\ player'.level > 1
                /\ Len(last'.ret) > 1
      ]_vars

\* C7's case: experience gained at MAX_LEVEL, kept in the counter
C7_Witness ==
    /\ last.op = "gain_experience" /\ last.arg = 10000
    /\ player.level = MAX_LEVEL
    /\ player.experience >= 10000

\* C8: with 0 experience at a level below MAX_LEVEL, gaining exactly
\* xp_to_next_level(level) gives exactly one level and leaves experience at 0.
C8_ExactThreshold ==
    [][(/\ GainStep
        /\ player.level < MAX_LEVEL
        /\ player.experience = 0
        /\ last'.arg = xp_to_next_level(player))
       => /\ last'.ret = <<player.level + 1>>
          /\ player'.level = player.level + 1
          /\ player'.experience = 0
      ]_vars

\* C8's case: a level gained by exactly the threshold, above the first level
C8_Witness ==
    /\ last.op = "gain_experience"
    /\ player.level = 4
    /\ last.arg = 225
    /\ last.ret = <<4>>
    /\ player.experience = 0

\* C9: gain_experience(amount <= 0) returns the empty list and leaves
\* experience, level, stat points, skill points and all pools unchanged.
C9_NonPositiveAmountIsNoOp ==
    [][(GainStep /\ last'.arg <= 0) => (last'.ret = << >> /\ player' = player)]_vars

\* C9's case: a negative amount given to a character that holds experience
C9_Witness ==
    /\ last.op = "gain_experience" /\ last.arg < 0 /\ last.ret = << >>
    /\ player.experience > 0
    /\ player.health = 0

\* C10: allocate_stat_point succeeds only with available_stat_points > 0 and a
\* recognized stat name, then raises that stat by 1 and lowers the points by 1;
\* otherwise it raises nothing, changes nothing and reports a failure, the
\* no-points failure being told apart from the unrecognized-stat failure.
C10_AllocateStatPoint ==
    [][AllocStep =>
         LET name == Lower(last'.arg)
         IN  /\ last'.exc = "none"
             /\ last'.ret = (player.available_stat_points > 0 /\ name \in StatNames)
             /\ last'.ret =>
                    player' = [player EXCEPT
                                 !.stats[name] = player.stats[name] + 1,
                                 !.available_stat_points = player.available_stat_points - 1]
             /\ ~last'.ret => player' = player
             /\ (~last'.ret /\ player.available_stat_points <= 0) =>
                    last'.printed = "No stat points available."
             /\ (~last'.ret /\ player.available_stat_points > 0) =>
                    last'.printed = "Invalid stat."
      ]_vars

\* C10's case: the last point spent, and the next call refused for lack of points
C10_Witness ==
    /\ last.op = "allocate_stat_point" /\ last.ret = FALSE
    /\ last.printed = "No stat points available."
    /\ player.skill_points > 0
    /\ player.stats.vitality > 10

(***************************************************************************)
(* Claims about the combat arithmetic                                      *)
(***************************************************************************)
\* a step of player_turn in which an attack was completed
AttackStep ==
    /\ last'.op = "player_turn" /\ last'.arg = "1" /\ last'.ret = TRUE
    /\ pc = "player_turn"

\* the base damages the formula weapon damage + floor(strength / 2) allows the
\* player: one per weapon offered, or the unarmed one
FormulaDamages(c, weapons) ==
    IF weapons = << >> THEN {5 + (c.stats.strength \div 2)}
    ELSE {Get(weapons[i], "damage", 5) + (c.stats.strength \div 2) : i \in 1..Len(weapons)}

\* C11: every player attack resolved in an encounter deals weapon damage (5
\* when unarmed) + floor(strength / 2), times the critical multiplier on a
\* critical hit, on the unarmed path as with a weapon.
C11_AttackDamageFormula ==
    [][AttackStep =>
          LET dealt == stats'.total_damage_dealt - stats.total_damage_dealt
              bases == FormulaDamages(player, display_weapons(Self))
          IN  dealt \in bases \cup {CritDamage(b) : b \in bases}]_vars

\* a call of Character.take_damage / Enemy.take_damage on its own
PlayerHitStep == last'.op = "take_damage"
EnemyHitStep  == last'.op = "Enemy.take_damage"

\* C12: a hit that is not dodged applies max(1, raw damage - effective defense)
\* to the player as to the enemy and returns it, a value >= 1: raw 5 against
\* defense 1000 gives 1, and a player of defense 0 at health 100 taking 30 ends
\* at health 70.
C12_DamageFloor ==
    [][/\ (PlayerHitStep /\ ~last'.dodged) =>
              /\ last'.ret = Max(1, last'.arg - get_defense(player))
              /\ last'.ret >= 1
              /\ player'.health = Max(0, player.health - last'.ret)
              /\ (last'.arg = 5 /\ get_defense(player) >= 1000) => last'.ret = 1
              /\ (last'.arg = 30 /\ get_defense(player) = 0 /\ player.health = 100) =>
                     player'.health = 70
       /\ EnemyHitStep =>
              /\ last'.ret = Max(1, last'.arg - effective_defense(enemy))
              /\ last'.ret >= 1
              /\ enemy'.health = Max(0, enemy.health - last'.ret)
              /\ (last'.arg = 5 /\ effective_defense(enemy) >= 1000) => last'.ret = 1]_vars

\* C12's case: the player hit for 5 through a defense of 1000 or more, losing 1
C12_Witness ==
    /\ last.op = "take_damage" /\ last.arg = 5 /\ ~last.dodged /\ last.ret = 1
    /\ get_defense(player) >= 1000
    /\ player.health = 129

\* the character with another defense: stance, armor and vitality
WithDefense(c, stance, armor, vitality) ==
    [c EXCEPT !.is_defending = stance, !.equipment.armor = armor, !.stats.vitality = vitality]

\* C13: a dodged hit returns 0 and leaves the player as it was, whatever the
\* raw damage and the defense, and the chance of the dodge does not depend on
\* the defense.
C13_DodgeLeavesPlayerUnchanged ==
    /\ [][(PlayerHitStep /\ last'.dodged) => (last'.ret = 0 /\ player' = player)]_vars
    /\ [](\A stance \in BOOLEAN, armor \in {None, Plate}, vitality \in {0, 10, 3000} :
              get_dodge_chance(WithDefense(player, stance, armor, vitality))
                  = get_dodge_chance(player))

\* C13's case: a defending player in plate dodged a hit of 1000
C13_Witness ==
    /\ last.op = "take_damage" /\ last.dodged /\ last.arg = 1000 /\ last.ret = 0
    /\ player.is_defending /\ get_defense(player) >= 1000
    /\ player.health = 130

(***************************************************************************)
(* Claims about the enemy's behaviour engine (specification SpecEnemy)     *)
(***************************************************************************)
\* a step that calls choose_action alone, and one that takes a whole turn
ChoiceStep == last'.op = "choose_action"
TurnStep   == last'.op = "execute_turn"

\* the enemy's health is strictly below pct percent of its maximum
BelowPct(e, pct) == e.health * 100 < pct * e.max_health

\* at least one ability of the enemy is ready
AnyReady(e) == \E i \in 1..Len(e.abilities) : e.abilities[i].current_cooldown <= 0

\* C14: an AGGRESSIVE enemy selects "ability" exactly when an ability is ready and
\* the roll is below 0.4, and "attack" in every other case; its turns are never
\* "defend" or "flee".
C14_Aggressive ==
    [][enemy.behavior = "AGGRESSIVE" =>
           /\ ChoiceStep =>
                  last'.ret = IF AnyReady(enemy) /\ last'.arg[1] < 40
                              THEN "ability" ELSE "attack"
           /\ TurnStep => last'.ret \in {"attack", "ability"}]_vars

\* an AGGRESSIVE enemy with a ready ability that rolled 0.1 and selected "ability"
C14_Witness ==
    /\ last.op = "choose_action"
    /\ enemy.behavior = "AGGRESSIVE"
    /\ AnyReady(enemy)
    /\ last.arg[1] = 10
    /\ last.ret = "ability"

\* C15: a TACTICAL enemy's action is determined by its health, the readiness of
\* its abilities and the turn's roll: "ability" if one is ready and the roll is
\* below 0.3, otherwise "defend" if the health is below 30% and the roll below
\* 0.4, otherwise "attack".
C15_TacticalOneRoll ==
    [][ChoiceStep /\ enemy.behavior = "TACTICAL" =>
           last'.ret = IF AnyReady(enemy) /\ last'.arg[1] < 30 THEN "ability"
                       ELSE IF BelowPct(enemy, 30) /\ last'.arg[1] < 40 THEN "defend"
                       ELSE "attack"]_vars

\* C16: a BALANCED enemy selects "defend" if the roll is below 0.10 and its health
\* below 50%, otherwise "ability" if the roll is below 0.25 and an ability is
\* ready, otherwise "attack"; defend has priority over ability.
C16_Balanced ==
    [][ChoiceStep /\ enemy.behavior = "BALANCED" =>
           last'.ret = IF last'.arg[1] < 10 /\ BelowPct(enemy, 50) THEN "defend"
                       ELSE IF last'.arg[1] < 25 /\ AnyReady(enemy) THEN "ability"
                       ELSE "attack"]_vars

\* a BALANCED enemy for which both conditions held and that selected "defend"
C16_Witness ==
    /\ last.op = "choose_action"
    /\ enemy.behavior = "BALANCED"
    /\ last.arg[1] < 10
    /\ BelowPct(enemy, 50)
    /\ AnyReady(enemy)
    /\ last.ret = "defend"

\* the health threshold of the three behaviours that have one and no other test
Threshold == [COWARD |-> 25, DEFENSIVE |-> 40, BERSERKER |-> 30]

\* C17: the health thresholds are strict: "flee" is selected only by a COWARD
\* enemy below 25%, a DEFENSIVE enemy selects "defend" only below 40%, a
\* BERSERKER enemy selects "ability" exactly when one is ready and its health is
\* below 30%; at or above its threshold each of the three selects "attack".
C17_StrictThresholds ==
    [][ChoiceStep \/ TurnStep =>
           /\ last'.ret = "flee" => enemy.behavior = "COWARD" /\ BelowPct(enemy, 25)
           /\ enemy.behavior = "DEFENSIVE" /\ last'.ret = "defend" => BelowPct(enemy, 40)
           /\ enemy.behavior = "BERSERKER" =>
                  last'.ret = IF AnyReady(enemy) /\ BelowPct(enemy, 30)
                              THEN "ability" ELSE "attack"
           /\ /\ enemy.behavior \in DOMAIN Threshold
              /\ ~BelowPct(enemy, Threshold[enemy.behavior])
              => last'.ret = "attack"]_vars

\* a COWARD enemy at exactly 25% of its health whose roll would have let it flee
C17_Witness ==
    /\ last.op = "choose_action"
    /\ enemy.behavior = "COWARD"
    /\ enemy.health * 100 = 25 * enemy.max_health
    /\ last.arg[1] < 50
    /\ last.ret = "attack"

\* C18: execute_turn reports the action taken: it returns "ability" only if an
\* ability that was ready has been used in the turn, and when "ability" is
\* selected while no ability is ready it attacks the player and returns "attack".
C18_ReportsActionTaken ==
    /\ [][TurnStep =>
              IF last'.ret = "ability"
              THEN /\ last'.arg \in 1..Len(enemy.abilities)
                   /\ enemy.abilities[last'.arg].current_cooldown <= 0
                   /\ enemy'.abilities[last'.arg].current_cooldown
                          = enemy.abilities[last'.arg].cooldown - 1
              ELSE \A i \in 1..Len(enemy.abilities) :
                       enemy'.abilities[i].current_cooldown
                           <= enemy.abilities[i].current_cooldown]_vars
    /\ [](~AnyReady(enemy) =>
              \A dodged \in BOOLEAN :
                  LET t == perform_action(enemy, player, "ability", 0, 100, dodged)
                      a == attack_target(enemy, player, 100, dodged)
                  IN  /\ t.ret = "attack"
                      /\ t.target = a.target
                      /\ t.e = tick_abilities(a.e))

\* a turn reported as "ability" in which the ability picked went on cooldown
C18_Witness ==
    /\ last.op = "execute_turn"
    /\ last.ret = "ability"
    /\ enemy.abilities[last.arg].current_cooldown = enemy.abilities[last.arg].cooldown - 1

\* C19: using an ability sets its current cooldown to its cooldown, and at the
\* end of every turn of the enemy, whatever the action, every ability's current
\* cooldown decreases by 1 unless it is 0; so the current cooldown stays within
\* 0..cooldown, and an ability of cooldown c used on turn t is not ready on the
\* turns t+1 .. t+c-1.
C19_Cooldowns ==
    /\ [][TurnStep =>
              \A i \in 1..Len(enemy.abilities) :
                  enemy'.abilities[i].current_cooldown
                      = Max(0, (IF last'.ret = "ability" /\ last'.arg = i
                                THEN enemy.abilities[i].cooldown
                                ELSE enemy.abilities[i].current_cooldown) - 1)]_vars
    /\ [](\A i \in 1..Len(enemy.abilities) :
              /\ enemy.abilities[i].current_cooldown \in 0..enemy.abilities[i].cooldown
              /\ /\ last.op = "execute_turn"
                 /\ last.used_on[i] > 0
                 /\ enemy.turns_in_combat + 1 \in
                        (last.used_on[i] + 1)..(last.used_on[i] + enemy.abilities[i].cooldown - 1)
                 => ~is_ready(enemy.abilities[i]))

\* the second of the turns on which an ability of cooldown 3, used two turns
\* earlier, is not ready; the enemy did something else on the turn between
C19_Witness ==
    /\ last.op = "execute_turn"
    /\ \E i \in 1..Len(enemy.abilities) :
           /\ last.used_on[i] > 0
           /\ enemy.turns_in_combat = last.used_on[i] + 1
           /\ enemy.abilities[i].cooldown = 3
           /\ enemy.abilities[i].current_cooldown = 1

(***************************************************************************)
(* Claims about the enemy's abilities in a session (specification          *)
(* SpecCombat)                                                             *)
(***************************************************************************)
\* a step in which the enemy takes its turn
EnemyActs == last'.op = "enemy_turn" /\ is_active /\ enemy_is_alive(enemy)

\* ability i is used in the step: it was ready and is on cooldown after the tick
UsedInStep(i) ==
    /\ enemy.abilities[i].current_cooldown <= 0
    /\ enemy'.abilities[i].current_cooldown = enemy.abilities[i].cooldown - 1

\* the enemy's last turn used an ability whose effect is "stun"
JustStunned ==
    \E i \in 1..Len(enemy.abilities) :
        /\ enemy.abilities[i].effect = "stun"
        /\ enemy.abilities[i].current_cooldown = enemy.abilities[i].cooldown - 1

\* C20: a self_buff ability raises the enemy's base damage to floor(1.3 x the
\* previous one) and leaves the player unchanged; an ability with another effect
\* (stun included) damages the player as a hit does (dodge and defense apply) and
\* leaves the base damage alone, and after a stun the loop still gives the player
\* the next half-turn, in which the player's choice is carried out.
C20_AbilityEffects ==
    /\ [][EnemyActs =>
              \A i \in 1..Len(enemy.abilities) :
                  UsedInStep(i) =>
                      IF enemy.abilities[i].effect = "self_buff"
                      THEN /\ enemy'.base_damage = (13 * enemy.base_damage) \div 10
                           /\ player' = player
                      ELSE /\ enemy'.base_damage = enemy.base_damage
                           /\ \E dodged \in BOOLEAN :
                                  player' = take_damage(player,
                                      (damage(enemy) * enemy.abilities[i].mult_twice) \div 2,
                                      dodged).c]_vars
    /\ [][JustStunned /\ pc = "loop" /\ is_active =>
              pc' = "player_turn" /\ phase' = "PLAYER_TURN"]_vars
    /\ [][JustStunned /\ pc = "player_turn" =>
              /\ last'.op = "player_turn"
              /\ last'.arg = "3" => last'.ret = TRUE /\ player'.is_defending]_vars

\* the enemy has just used Enrage: its base damage went from 50 to 65
C20_Witness ==
    /\ last.op = "enemy_turn"
    /\ \E i \in 1..Len(enemy.abilities) :
           /\ enemy.abilities[i].effect = "self_buff"
           /\ enemy.abilities[i].current_cooldown = enemy.abilities[i].cooldown - 1
    /\ enemy.base_damage = 65

(***************************************************************************)
(* Claims about fleeing, defending and the turn counters in a session      *)
(* (specification SpecCombat)                                              *)
(***************************************************************************)
\* a step of player_turn in which the player selects Flee
FleeStep == last'.op = "player_turn" /\ last'.arg = "4"

\* the fields of the player that the rewards of a victory change
Rewardable(c) == <<c.experience, c.level, c.gold, c.inventory>>

\* C21: a successful flee of the player sets result to FLED and ends the session
\* at once: the enemy does nothing afterwards and no reward is granted. A failed
\* flee completes the player's half-turn and the enemy acts next. Without
\* allow_flee the selection is rejected and the half-turn stays open.
C21_PlayerFlee ==
    /\ [][FleeStep /\ allow_flee =>
              /\ last'.ret = TRUE
              /\ pc' = "check1"
              /\ player' = player /\ enemy' = enemy /\ stats' = stats
              /\ \/ result' = "FLED" /\ ~is_active'
                 \/ result' = result /\ is_active']_vars
    /\ [][FleeStep /\ ~allow_flee =>
              /\ last'.ret = FALSE
              /\ pc' = "player_turn"
              /\ UNCHANGED <<player, enemy, stats, result, is_active, turn_number, phase>>]_vars
    /\ [][result = "FLED" =>
              /\ enemy' = enemy
              /\ Rewardable(player') = Rewardable(player)
              /\ player'.health = player.health
              /\ result' = "FLED" /\ ~is_active'
              /\ turn_number' = turn_number]_vars
    /\ [](pc = "returned" /\ result = "FLED" => returned = "FLED")
    /\ [][pc = "check1" /\ last.arg = "4" /\ is_active =>
              pc' = "enemy_turn" /\ is_active']_vars
    /\ [][pc = "enemy_turn" /\ is_active =>
              enemy'.turns_in_combat = enemy.turns_in_combat + 1]_vars

\* the player fled on the second turn, after the enemy's first turn, and start()
\* returned: the enemy took one turn only and the player got nothing
C21_Witness ==
    /\ pc = "returned" /\ returned = "FLED"
    /\ turn_number = 2
    /\ enemy.turns_in_combat = 1
    /\ Rewardable(player) = Rewardable(Bare)

\* the agilities the flee chance is compared for
AgilitySamples == {0, 12, 57, 140, 141, 200}

\* the encounter of the state with another agility of the player and another
\* rank of the enemy
FleeCase(agility, rank) ==
    [Self EXCEPT !.player.stats.agility = agility, !.enemy.rank = rank]

\* C22: the player's flee chance is FLEE_BASE + agility / 200 (here in units of
\* 1/400: 2 * (60 + agility)), and against a BOSS or LEGENDARY enemy exactly half
\* of what it is against a lower rank with the same agility. The roll can fail
\* only if the chance is below 1 and succeed only if it is above 0.
C22_FleeChance ==
    /\ [](FleeChance(Self) =
              IF enemy.rank \in {"BOSS", "LEGENDARY"}
              THEN 60 + player.stats.agility
              ELSE 2 * (60 + player.stats.agility))
    /\ [](is_active => \A a \in AgilitySamples :
              /\ \A rank \in {"MINION", "NORMAL", "ELITE"} :
                     FleeChance(FleeCase(a, rank)) = 2 * (60 + a)
              /\ \A high \in {"BOSS", "LEGENDARY"}, low \in {"MINION", "NORMAL", "ELITE"} :
                     2 * FleeChance(FleeCase(a, high)) = FleeChance(FleeCase(a, low))
              /\ \A rank \in DOMAIN RankTwice :
                     LET chance == FleeChance(FleeCase(a, rank))
                         out == {handle_player_flee(FleeCase(a, rank), escaped).self.result :
                                     escaped \in RollOf(chance, 2 * PROB_DEN)}
                     IN  /\ "FLED" \in out <=> chance > 0
                         /\ "None" \in out <=> chance < 400)

\* the player tried to flee from the Dragon, a BOSS, and failed
C22_Witness ==
    /\ enemy.rank = "BOSS"
    /\ last.op = "player_turn" /\ last.arg = "4" /\ last.ret = TRUE
    /\ is_active

\* a step in which the enemy's turn is an attempt to flee
EnemyFleeStep == last'.op = "enemy_turn" /\ last'.ret = "flee"

\* the enemy got away: the session was won with the enemy alive
EnemyEscaped == result = "VICTORY" /\ enemy.health > 0

\* C23: when the enemy's action is "flee" the player takes no damage; the
\* attempt either succeeds, and the session ends with result VICTORY (never
\* FLED) and the victory rewards are granted, or fails, and the session goes on.
C23_EnemyFlee ==
    /\ [][EnemyFleeStep =>
              /\ player' = player
              /\ enemy'.health = enemy.health
              /\ pc' = "check2"
              /\ \/ result' = "VICTORY" /\ ~is_active'
                 \/ result' = "None" /\ is_active']_vars
    /\ [](EnemyEscaped => ~is_active /\ pc \in {"check2", "loop", "ending", "returned"})
    /\ [][EnemyEscaped =>
              /\ enemy' = enemy
              /\ turn_number' = turn_number
              /\ result' = "VICTORY"
              /\ pc = "ending" =>
                     /\ player'.gold - player.gold \in
                            enemy.loot_table.gold_range[1]..enemy.loot_table.gold_range[2]
                     /\ enemy.loot_table.xp_reward > 0
                     /\ LET c == gain_experience(player, enemy.loot_table.xp_reward).c
                        IN  <<player'.level, player'.experience>> = <<c.level, c.experience>>
                     /\ returned' = "VICTORY"]_vars
    /\ [][last.op = "enemy_turn" /\ last.ret = "flee" /\ is_active =>
              pc' = "loop" /\ is_active' /\ result' = "None"]_vars

\* the goblin fled, start() returned VICTORY and the player was paid
C23_Witness ==
    /\ pc = "returned" /\ returned = "VICTORY"
    /\ enemy.health > 0
    /\ player.gold > 0 /\ Rewardable(player) # Rewardable(Bare)

\* a step in which an attack of the player is resolved
PlayerAttackStep == last'.op = "player_turn" /\ last'.arg = "1" /\ last'.ret = TRUE

\* C24: once the player defends, player.is_defending stays True through the
\* enemy's half-turn and through the player's actions that are no attack, and it
\* is False as soon as an attack of the player has been resolved, with a weapon
\* or unarmed.
C24_PlayerDefendFlag ==
    /\ [][PlayerAttackStep => ~player'.is_defending]_vars
    /\ [][player.is_defending /\ ~PlayerAttackStep => player'.is_defending]_vars
    /\ [][last'.op = "player_turn" /\ last'.arg = "3" => player'.is_defending]_vars

(***************************************************************************)
(* Claims about the enemy's stance (specification SpecEnemy)               *)
(***************************************************************************)
\* C25: once the enemy defends, enemy.is_defending lasts until its next
\* offensive action and is False once that action, an attack or an ability, is
\* resolved.
C25_EnemyDefendFlag ==
    /\ [][TurnStep /\ last'.ret \in {"attack", "ability"} => ~enemy'.is_defending]_vars
    /\ [][TurnStep /\ last'.ret = "defend" => enemy'.is_defending]_vars
    /\ [][enemy.is_defending /\ ~(TurnStep /\ last'.ret \in {"attack", "ability"}) =>
              enemy'.is_defending]_vars

(***************************************************************************)
(* Claims about the turn counters and the handlers' errors                 *)
(***************************************************************************)
\* a pass of player_turn's loop that completes no action: Status, an invalid
\* selection, a refused flee, a cancelled or invalid second prompt
OpenStep == last'.op = "player_turn" /\ last'.ret = FALSE

\* C26: turn_number equals stats.turns_elapsed in every state and both grow by
\* exactly 1 per full turn (one completed action of the player, one turn of the
\* enemy); a Status or invalid selection changes neither counter, gives the
\* enemy no action and leaves the half-turn open. (specification SpecCombat)
C26_TurnCounters ==
    /\ [](turn_number = stats.turns_elapsed)
    /\ [](turn_number - enemy.turns_in_combat \in {0, 1})
    /\ [][<<turn_number', stats'.turns_elapsed>> # <<turn_number, stats.turns_elapsed>> =>
              /\ pc = "loop" /\ pc' = "player_turn"
              /\ turn_number' = turn_number + 1
              /\ stats'.turns_elapsed = stats.turns_elapsed + 1
              /\ enemy.turns_in_combat = turn_number]_vars
    /\ [][last'.op = "player_turn" /\ last'.arg \in {"5", "x"} => OpenStep]_vars
    /\ [][OpenStep /\ last'.exc = "none" =>
              /\ pc' = "player_turn"
              /\ UNCHANGED <<turn_number, stats, enemy, player, is_active, result>>]_vars

\* on the second turn the player asked for the status twice and the prompt is
\* still open: the counters are 2 and the enemy has taken one turn
C26_Witness ==
    /\ pc = "player_turn"
    /\ last.op = "player_turn" /\ last.arg = "5"
    /\ turn_number = 2 /\ stats.turns_elapsed = 2
    /\ enemy.turns_in_combat = 1

\* C27: when a handler of a player action raises a recoverable error,
\* player_turn catches it: the session stays active with no result, the enemy
\* does not act, the turn counter and the statistics are unchanged and the
\* prompt is shown again for the same half-turn. (specification SpecItems)
C27_HandlerErrorsRecovered ==
    /\ [][last'.op = "player_turn" /\ last'.exc # "none" =>
              /\ is_active /\ is_active'
              /\ result' = "None"
              /\ pc' = "player_turn"
              /\ UNCHANGED <<enemy, turn_number, stats, phase>>]_vars
    /\ [](last.exc # "none" => pc = "player_turn" /\ phase = "PLAYER_TURN")
    /\ [][pc = "player_turn" /\ pc' = "check1" => last'.exc = "none"]_vars

\* the player tried to drink the empty flask on the second turn
C27_Witness ==
    /\ last.op = "player_turn" /\ last.arg = "2"
    /\ last.exc = "ItemNotUsableError"
    /\ pc = "player_turn" /\ is_active
    /\ turn_number = 2

(***************************************************************************)
(* Claims about the loot and the rewards of a victory                      *)
(***************************************************************************)
\* the chance of an entry of a loot table, in hundredths
ChanceOf(entry) == IF "drop_chance" \in DOMAIN entry THEN entry.drop_chance ELSE 10

\* the entries of table t that the rolls decide to drop, each by its own roll
KeptBy(t, rolls) == {i \in 1..Len(t.items) : rolls[i] < ChanceOf(t.items[i])}

\* the k-th smallest element of a set of indices
NthOf(S, k) == CHOOSE i \in S : Cardinality({j \in S : j <= i}) = k

\* C28: roll_loot returns a gold amount within the table's range, the table's
\* fixed xp_reward, and the items of exactly the entries whose own roll is
\* below their drop_chance, in the table's order: an entry with chance 1.0 is
\* always among them and an entry with chance 0.0 never
C28_RollLoot ==
    [][last'.op = "roll_loot" =>
         LET t == enemy.loot_table
             loot == last'.ret
             kept == KeptBy(t, last'.arg[2])
         IN  /\ loot.gold >= t.gold_range[1]
             /\ loot.gold <= t.gold_range[2]
             /\ loot.xp = t.xp_reward
             /\ Len(loot.items) = Cardinality(kept)
             /\ \A k \in 1..Len(loot.items) : loot.items[k] = t.items[NthOf(kept, k)].item
             /\ \A i \in 1..Len(t.items) :
                    /\ ChanceOf(t.items[i]) = 100 =>
                           \E k \in 1..Len(loot.items) : loot.items[k] = t.items[i].item
                    /\ ChanceOf(t.items[i]) = 0 =>
                           \A k \in 1..Len(loot.items) : loot.items[k] # t.items[i].item]_vars

\* a roll that drops the first and the third entry of the hoard and neither
\* the second, whose roll is not below 0.5, nor the fourth, whose chance is 0
C28_Witness ==
    /\ last.op = "roll_loot"
    /\ enemy.loot_table = HoardTable
    /\ last.arg[2][2] >= 50
    /\ last.arg[2][4] = 0
    /\ last.ret.items = <<Gem, Coin>>
    /\ last.ret.gold = 11
    /\ last.ret.xp = 50

\* C29: a victory grants the whole rolled xp, through gain_experience, and the
\* rolled gold; the dropped items are added one by one, and those that do not
\* fit in the inventory are lost without undoing the xp, the gold or the items
\* added before them
C29_VictoryRewards ==
    [][last'.op = "award_victory_rewards" =>
         LET loot == last'.ret
             g == gain_experience(player, loot.xp).c
             room == MAX_INVENTORY_SIZE - Len(player.inventory)
             n == Min(Len(loot.items), room)
         IN  /\ loot = roll_loot(enemy.loot_table, last'.arg[1], last'.arg[2])
             /\ player'.gold = player.gold + loot.gold
             /\ player'.level = g.level
             /\ player'.experience = g.experience
             /\ player'.available_stat_points = g.available_stat_points
             /\ player'.inventory = player.inventory \o SubSeq(loot.items, 1, n)
             /\ enemy' = enemy /\ result' = result /\ stats' = stats]_vars

\* three items dropped for a winner with room for two: the two are kept, the
\* level gained by the xp and the gold are kept too
C29_Witness ==
    /\ last.op = "award_victory_rewards"
    /\ last.ret.items = <<Gem, Herb, Coin>>
    /\ Len(player.inventory) = MAX_INVENTORY_SIZE
    /\ player.inventory[MAX_INVENTORY_SIZE - 1] = Gem
    /\ player.inventory[MAX_INVENTORY_SIZE] = Herb
    /\ player.gold = last.ret.gold
    /\ player.level = 2

(***************************************************************************)
(* Claims about saving and loading a Character                             *)
(***************************************************************************)
\* C30: Character.from_dict(c.to_dict()) has the name, class, level,
\* experience, gold, stat points, five stats, pools (current and maximum),
\* inventory (in order) and equipment slots of c, for every c the public
\* operations reach
C30_RoundTrip ==
    [][last'.op = "from_dict" =>
         /\ player'.name = player.name
         /\ player'.character_class = player.character_class
         /\ player'.level = player.level
         /\ player'.experience = player.experience
         /\ player'.gold = player.gold
         /\ player'.available_stat_points = player.available_stat_points
         /\ \A k \in StatNames : player'.stats[k] = player.stats[k]
         /\ player'.health = player.health
         /\ player'.mana = player.mana
         /\ player'.stamina = player.stamina
         /\ player'.base_max_health = player.base_max_health
         /\ player'.base_max_mana = player.base_max_mana
         /\ player'.base_max_stamina = player.base_max_stamina
         /\ max_health(player') = max_health(player)
         /\ max_mana(player') = max_mana(player)
         /\ max_stamina(player') = max_stamina(player)
         /\ Len(player'.inventory) = Len(player.inventory)
         /\ \A i \in 1..Len(player.inventory) : player'.inventory[i] = player.inventory[i]
         /\ \A sl \in SlotNames : player'.equipment[sl] = player.equipment[sl]]_vars

\* a mage loaded from its own save at level 2, with gold, a spent stat point,
\* an item in the inventory, the amulet equipped and, after full_restore, more
\* health than its own maximum without the amulet
C30_Witness ==
    /\ last.op = "from_dict"
    /\ last.arg.name = "Bilbo"
    /\ player.name = "Bilbo"
    /\ player.character_class = "MAGE"
    /\ player.level = 2
    /\ player.gold = 37
    /\ player.stats.agility = 13
    /\ player.available_stat_points = STAT_POINTS_PER_LEVEL - 1
    /\ player.equipment.accessory = Amulet
    /\ player.inventory = <<Elixir>>
    /\ player.health > player.base_max_health

(***************************************************************************)
(* Claims about loading a Character from any structure                     *)
(***************************************************************************)
\* C31: the Character that from_dict returns has every pool within its
\* bounds, 0 <= current <= max, whatever the stored values are
C31_LoadedPoolsBounded ==
    last.op = "load" =>
        /\ player.health >= 0 /\ player.health <= max_health(player)
        /\ player.mana >= 0 /\ player.mana <= max_mana(player)
        /\ player.stamina >= 0 /\ player.stamina <= max_stamina(player)

(***************************************************************************)
(* Claims about the inventory and the equipment                            *)
(***************************************************************************)
\* the slot an unequip_item call names, when it holds an item
NamedSlotHeld(c, slot_name) ==
    /\ Lower(slot_name) \in SlotNames
    /\ c.equipment[Lower(slot_name)] # None

HeldCount(c, it) ==
    Cardinality({i \in 1..Len(c.inventory) : c.inventory[i] = it})
        + Cardinality({sl \in SlotNames : c.equipment[sl] = it})

\* the items a Character holds
HeldItems(c) ==
    {c.inventory[i] : i \in 1..Len(c.inventory)}
        \cup {c.equipment[sl] : sl \in {x \in SlotNames : c.equipment[x] # None}}

\* the first inventory index whose item has the name, compared without case
FirstNamed(c, n) ==
    CHOOSE i \in 1..Len(c.inventory) :
        /\ Lower(c.inventory[i].name) = Lower(n)
        /\ \A j \in 1..(i - 1) : Lower(c.inventory[j].name) # Lower(n)

\* C33: equip_item moves exactly the named item from the inventory into its
\* slot and puts the item the slot held back into the inventory; unequip_item
\* moves the slot's item to the end of the inventory and empties the slot;
\* across both the multiset of the items held is the same, and no item is at
\* once in the inventory and in a slot
C33_ItemsConserved ==
    /\ [][last'.op \in {"equip_item", "unequip_item"} =>
            \A it \in HeldItems(player) \cup HeldItems(player') :
                HeldCount(player', it) = HeldCount(player, it)]_vars
    /\ [][last'.op = "equip_item" /\ last'.exc = "none" =>
            LET i == FirstNamed(player, last'.arg)
                item == player.inventory[i]
                old == player.equipment[item.type]
            IN  /\ last'.ret = TRUE
                /\ player'.equipment = [player.equipment EXCEPT ![item.type] = item]
                /\ player'.inventory =
                       RemoveAt(player.inventory, i) \o (IF old = None THEN << >> ELSE <<old>>)]_vars
    /\ [][last'.op = "unequip_item" /\ last'.exc = "none" /\ last'.ret = TRUE =>
            LET slot == Lower(last'.arg)
            IN  /\ player.equipment[slot] # None
                /\ player'.equipment = [player.equipment EXCEPT ![slot] = None]
                /\ player'.inventory = Append(player.inventory, player.equipment[slot])]_vars
    /\ [](\A sl \in SlotNames : \A i \in 1..Len(player.inventory) :
              player.equipment[sl] # player.inventory[i])

\* the sword equipped in place of the axe, which went back to the end of a
\* full inventory
C33_Witness ==
    /\ last.op = "equip_item"
    /\ last.exc = "none"
    /\ player.equipment.weapon = Sword
    /\ Len(player.inventory) = MAX_INVENTORY_SIZE
    /\ player.inventory[MAX_INVENTORY_SIZE] = Axe

(***************************************************************************)
(* Claims about using items                                                *)
(***************************************************************************)
\* the inventory holds an item of that name, compared without case
HasNamed(c, n) == \E i \in 1..Len(c.inventory) : Lower(c.inventory[i].name) = Lower(n)

\* the pool after a potion that restores amount of it (none: unchanged)
Restored(current, max, item, key) ==
    IF key \in DOMAIN item THEN current + Min(item[key], max - current) ELSE current

\* C34: use_item on a potion that carries heal, mana or stamina raises each of
\* these pools by min(amount, max - current), max being the maximum the
\* Character reports, removes the used entry from the inventory and nothing
\* else, and returns True, a change of zero included
C34_PotionRestores ==
    [][/\ last'.op = "use_item"
       /\ HasNamed(player, last'.arg)
       /\ Get(player.inventory[FirstNamed(player, last'.arg)], "type", "") = "potion"
       /\ \E k \in {"heal", "mana", "stamina"} :
              k \in DOMAIN player.inventory[FirstNamed(player, last'.arg)]
       => LET i == FirstNamed(player, last'.arg)
              item == player.inventory[i]
          IN  /\ last'.exc = "none"
              /\ last'.ret = TRUE
              /\ player'.health = Restored(player.health, max_health(player), item, "heal")
              /\ player'.mana = Restored(player.mana, max_mana(player), item, "mana")
              /\ player'.stamina =
                     Restored(player.stamina, max_stamina(player), item, "stamina")
              /\ player'.inventory = RemoveAt(player.inventory, i)]_vars

\* the name is that of a weapon in the inventory or of the equipped weapon
NamesWeapon(c, n) ==
    \/ \E i \in 1..Len(c.inventory) :
           /\ Lower(c.inventory[i].name) = Lower(n)
           /\ Get(c.inventory[i], "type", "") = "weapon"
    \/ c.equipment.weapon # None /\ Lower(c.equipment.weapon.name) = Lower(n)

\* C35: use_item raises ItemNotFoundError exactly when no inventory item has
\* the name, compared without case, and ItemNotUsableError when the item found
\* is neither a potion nor a consumable; attack raises CharacterDeadError
\* when the attacker's health is 0 and InvalidWeaponError when the name is
\* neither an inventory weapon's nor the equipped weapon's; none of the four
\* changes the Character or the target
C35_FailedCallsChangeNothing ==
    /\ [][last'.op = "use_item" =>
            /\ last'.exc = "ItemNotFoundError" <=> ~HasNamed(player, last'.arg)
            /\ HasNamed(player, last'.arg)
               /\ Get(player.inventory[FirstNamed(player, last'.arg)], "type", "")
                      \notin {"potion", "consumable"}
               => last'.exc = "ItemNotUsableError"
            /\ last'.exc \in {"ItemNotFoundError", "ItemNotUsableError"} =>
                   /\ player'.inventory = player.inventory
                   /\ player'.health = player.health
                   /\ player'.mana = player.mana
                   /\ player'.stamina = player.stamina
                   /\ player'.status_effects = player.status_effects]_vars
    /\ [][last'.op = "attack" =>
            /\ last'.exc = "CharacterDeadError" <=> player.health = 0
            /\ last'.exc = "InvalidWeaponError" <=>
                   player.health > 0 /\ ~NamesWeapon(player, last'.arg)
            /\ last'.exc \in {"CharacterDeadError", "InvalidWeaponError"} =>
                   /\ enemy'.health = enemy.health
                   /\ player'.is_defending = player.is_defending
                   /\ player' = player]_vars

\* a defending Character attacked with the elixir's name: InvalidWeaponError,
\* the stance is kept and the enemy is unhurt
C35_Witness ==
    /\ last.op = "attack"
    /\ last.arg = "ELIXIR"
    /\ last.exc = "InvalidWeaponError"
    /\ player.is_defending
    /\ enemy.health = Goblin.health

(***************************************************************************)
(* Claims about the Enemy's health pool                                    *)
(***************************************************************************)
\* the calls of Enemy.take_damage and Enemy.heal
EnemyDamageStep == last'.op = "Enemy.take_damage"
EnemyHealStep   == last'.op = "Enemy.heal"

\* C36: the Enemy's health stays within 0..max_health under take_damage and
\* heal; take_damage on a living enemy lowers its health by at least 1, and to
\* exactly 0 when the damage exceeds the health left; heal returns the amount
\* restored and never takes the health above max_health
C36_EnemyHealthBounded ==
    /\ [](enemy.health >= 0 /\ enemy.health <= enemy.max_health)
    /\ [][EnemyDamageStep /\ enemy_is_alive(enemy) =>
            /\ enemy'.health <= enemy.health - 1
            /\ last'.ret > enemy.health => enemy'.health = 0 /\ ~enemy_is_alive(enemy')]_vars
    /\ [][EnemyHealStep =>
            /\ last'.ret = enemy'.health - enemy.health
            /\ enemy'.health <= enemy.max_health]_vars

(***************************************************************************)
(* Claims about the session's statistics                                   *)
(***************************************************************************)
\* the enemy's half-turn of a session
EnemyHalfTurn == last'.op = "enemy_turn"

\* C37: in every enemy half-turn total_damage_taken grows by the health the
\* player lost in it, and dodges grows by one exactly when the enemy attacked
\* and the player, dodging, lost nothing (a hit takes at least 1)
C37_StatsTrackPlayer ==
    [][EnemyHalfTurn =>
         /\ stats'.total_damage_taken =
                stats.total_damage_taken + (player.health - player'.health)
         /\ stats'.dodges =
                stats.dodges + (IF last'.ret = "attack" /\ player'.health = player.health
                                THEN 1 ELSE 0)]_vars

(***************************************************************************)
(* Claims about the value take_damage returns                              *)
(***************************************************************************)
\* C38: take_damage returns the health its combatant lost by it, health
\* before minus health after, for the Character and for the Enemy: 0 for a
\* dodge, and the health that was left when the hit brings it to 0
C38_ReturnsHealthLost ==
    [][/\ PlayerHitStep => last'.ret = player.health - player'.health
       /\ EnemyHitStep => last'.ret = enemy.health - enemy'.health]_vars

(***************************************************************************)
(* C39: the rewards of a victory are granted once per encounter            *)
(***************************************************************************)
\* what award_victory_rewards gives to the player
Rewarded(c) == <<c.level, c.experience, c.gold, c.inventory>>

\* C39: the xp, the gold and the items of a victory are granted at most once per
\* CombatEncounter: once start() has returned, a further start() on the same
\* encounter grants nothing, and a start() that ends with DEFEAT or FLED grants
\* nothing.
C39_RewardsOnce ==
    [][/\ returned # "None" => Rewarded(player') = Rewarded(player)
       /\ (pc = "ending" /\ result \in {"DEFEAT", "FLED"})
              => Rewarded(player') = Rewarded(player)]_vars

(***************************************************************************)
(* C40: a player who always attacks ends the session                       *)
(***************************************************************************)
\* the session is over, won or lost
SessionOver == phase = "END" /\ result \in {"VICTORY", "DEFEAT"}

\* C40: when the player selects an attack at every half-turn, the session
\* reaches phase END with result VICTORY or DEFEAT, within at most
\* enemy.max_health turns: the enemy's health never grows (it does not dodge and
\* is not healed), and every attack of the player lowers it by at least 1.
C40_AttackEndsSession ==
    /\ <>SessionOver
    /\ [](turn_number <= enemy.max_health)
    /\ [](phase = "END" => SessionOver)
    /\ [][/\ enemy'.health <= enemy.health
          /\ enemy'.max_health = enemy.max_health
          /\ (last'.op = "player_turn" /\ last'.ret = TRUE)
                 => enemy'.health <= enemy.health - 1]_vars

\* the session was won in the turn numbered enemy.max_health, against a defense
\* above the damage of every attack
C40_Witness ==
    /\ SessionOver
    /\ result = "VICTORY"
    /\ enemy.health = 0
    /\ turn_number = enemy.max_health
    /\ stats.total_damage_dealt > turn_number
====
